---- MODULE Spec2Model ----
(***************************************************************************)
(* Token builder of the cap-table application                              *)
(* (src/src/components/tokens/TokenBuilder.tsx): the token form, the       *)
(* tranche editor, the contract-text generator and the token store; and   *)
(* the mint dialog, the distribution manager with its dialog and the       *)
(* allocation manager (src/src/components/captable/).                      *)
(*                                                                         *)
(* An async handler is one action up to each await; the values it read     *)
(* from the render it was called in travel in the record of the call.      *)
(*                                                                         *)
(* Representation of JavaScript values:                                    *)
(*   - an object is a record; a key the object lacks is a field the record *)
(*     lacks (Has), so `undefined` is never a value of the model;          *)
(*   - null is the record Null;                                            *)
(*   - a value that the code lets be a number or a string (decimals) is    *)
(*     tagged with its type: Num(n), or a record of type "string";        *)
(*   - a token name is a sequence of pieces, every whitespace character    *)
(*     and every punctuation character being a piece of its own; the empty *)
(*     string is << >>;                                                    *)
(*   - percentages (interestRate) are fixed-point, in thousandths; the     *)
(*     double that a product of the code gives is kept as its text;        *)
(*   - a generated text is the sequence of its parts: each part is a       *)
(*     record holding the id of the template literal it comes from and     *)
(*     the values interpolated into it; "" is << >>.                       *)
(***************************************************************************)
EXTENDS Integers, Sequences, FiniteSets, Bags, TLC

(***************************************************************************)
(* Bounds of the model                                                     *)
(***************************************************************************)
MaxTranches == 3
MaxSlotId == 5

(***************************************************************************)
(* JavaScript values                                                       *)
(***************************************************************************)
Null == [null |-> TRUE]
Num(n) == [type |-> "number", n |-> n]
Has(obj, key) == key \in DOMAIN obj
IsNull(v) == Has(v, "null")
\* {...obj, [key]: v}
With(obj, key, v) == (key :> v) @@ obj
\* `${v}` of a number or a string
TemplateText(v) == IF v.type = "number" THEN ToString(v.n) ELSE v.s
\* array.includes(x)
Includes(list, x) == \E i \in DOMAIN list : list[i] = x
\* array.filter((e) => e !== x)
Without(list, x) == SelectSeq(list, LAMBDA e : e # x)
\* RemoveAt that numbers the survivors by their position
RemoveAt_Renumber(list, index) ==
  [i \in 1..(Len(list) - 1) |->
     [(IF i < index THEN list[i] ELSE list[i + 1]) EXCEPT !.id = i]]

\* array.filter((_, i) => i !== index), index counted from 1
RemoveAt(list, index) ==
  [i \in 1..(Len(list) - 1) |-> IF i < index THEN list[i] ELSE list[i + 1]]

(***************************************************************************)
(* Static tables of the component                                          *)
(***************************************************************************)
TOKEN_STANDARDS ==
  {"ERC-20", "ERC-721", "ERC-1155", "ERC-1400", "ERC-3525", "ERC-4626"}

PRODUCT_CATEGORIES ==
  [c \in {"Traditional Assets", "Alternative Assets", "Digital Assets"} |->
     CASE c = "Traditional Assets" ->
            {"Structured Products", "Equity", "Commodities",
             "Funds, ETFs, ETPs", "Bonds",
             "Quantitative Investment Strategies"}
       [] c = "Alternative Assets" ->
            {"Private Equity", "Private Debt", "Real Estate", "Energy",
             "Infrastructure", "Collectibles & all other assets"}
       [] c = "Digital Assets" -> {"Digital Tokenised Fund"}]

TOKEN_TEMPLATES ==
  { [name |-> "Equity Token", category |-> "Equity", standard |-> "ERC-1400",
     defaultBlocks |->
       [compliance |-> <<"KYC", "AML", "Accredited Investors Only">>,
        features |-> <<"Voting", "Dividends", "Transfer Restrictions">>,
        governance |-> <<"Board Approval">>]],
    [name |-> "Real Estate Token", category |-> "Real Estate",
     standard |-> "ERC-1400",
     defaultBlocks |->
       [compliance |-> <<"KYC", "AML", "Accredited Investors Only">>,
        features |-> <<"Rental Income", "Transfer Restrictions",
                       "Redemption Rights">>,
        governance |-> <<"Manager Approval">>]],
    [name |-> "Bond Token", category |-> "Bonds", standard |-> "ERC-20",
     defaultBlocks |->
       [compliance |-> <<"KYC", "AML">>,
        features |-> <<"Fixed Interest", "Maturity Date", "Early Redemption">>,
        governance |-> <<"Issuer Control">>]],
    [name |-> "Fund Token", category |-> "Funds, ETFs, ETPs",
     standard |-> "ERC-4626",
     defaultBlocks |->
       [compliance |-> <<"KYC", "AML", "Investor Qualification">>,
        features |-> <<"NAV Calculation", "Redemption Windows",
                       "Management Fee">>,
        governance |-> <<"Fund Manager Control">>]],
    [name |-> "Structured Product Token", category |-> "Structured Products",
     standard |-> "ERC-3525",
     defaultBlocks |->
       [compliance |-> <<"KYC", "AML", "Sophisticated Investors Only",
                         "Jurisdiction Restrictions">>,
        features |-> <<"Conditional Returns", "Barrier Levels",
                       "Underlying Asset Linkage", "Tranche Structure",
                       "Maturity Date">>,
        governance |-> <<"Issuer Control">>]],
    [name |-> "Credit Linked Note", category |-> "Structured Products",
     standard |-> "ERC-3525",
     defaultBlocks |->
       [compliance |-> <<"KYC", "AML", "Accredited Investors Only",
                         "Jurisdiction Restrictions">>,
        features |-> <<"Tranche Structure", "Interest Rate", "Maturity Date",
                       "Credit Event Triggers">>,
        governance |-> <<"Issuer Control">>]] }

\* the names of the building blocks the form offers, per block type
BUILDING_BLOCKS ==
  [compliance |-> {"KYC", "AML", "Accredited Investors Only",
                   "Jurisdiction Restrictions", "Maximum Investors"},
   features |-> {"Voting", "Dividends", "Transfer Restrictions",
                 "Redemption Rights", "Lockup Period", "Vesting Schedule"},
   governance |-> {"Issuer Control", "Board Approval", "DAO Governance",
                   "Multi-Signature"}]

\* s.includes("Structured Product"), over the product strings of the tables
IncludesStructuredProduct(s) ==
  s \in {"Structured Product Token", "Structured Products"}

\* s.includes("Credit Linked"), over the product strings of the tables
IncludesCreditLinked(s) == s = "Credit Linked Note"

(***************************************************************************)
(* generateContractPreview: the contract text of a token form              *)
(***************************************************************************)
Whitespace == {" ", "\t"}
\* name.replace(/\s+/g, "")
replaceWhitespace(name) == SelectSeq(name, LAMBDA piece : piece \notin Whitespace)

\* new Date(d).getTime() / 1000
toEpochSeconds(d) ==
  CASE d = "2025-01-01" -> 1735689600
    [] d = "2030-01-01" -> 1893456000

\* `${totalSupply}`: a form without totalSupply renders the word undefined
TotalSupplyText(form) ==
  IF Has(form, "totalSupply") THEN ToString(form.totalSupply) ELSE "undefined"

\* `${tranche.interestRate * 100}`, the rate being in thousandths of a percent:
\* the product is a double. It is exact for the whole and the half percents;
\* 1.1 * 100 is the double 110.00000000000001
toBasisPoints(interestRate) ==
  CASE interestRate % 500 = 0 -> ToString(interestRate \div 10)
    [] interestRate = 1100 -> "110.00000000000001"

\* metadata.issuanceDate ? `${epoch}` : "block.timestamp"
IssuanceDateText(metadata) ==
  IF Has(metadata, "issuanceDate") /\ metadata.issuanceDate # ""
  THEN ToString(toEpochSeconds(metadata.issuanceDate))
  ELSE "block.timestamp"

\* metadata.maturityDate ? `${epoch}` : "block.timestamp + 157680000"
MaturityDateText(metadata) ==
  IF Has(metadata, "maturityDate") /\ metadata.maturityDate # ""
  THEN ToString(toEpochSeconds(metadata.maturityDate))
  ELSE "block.timestamp + 157680000"

\* metadata.conversionRate || 100
ConversionRateText(metadata) ==
  IF Has(metadata, "conversionRate") /\ metadata.conversionRate # 0
  THEN ToString(metadata.conversionRate)
  ELSE "100"

\* metadata.whitelistEnabled ? ... : ...
WhitelistEnabled(metadata) ==
  Has(metadata, "whitelistEnabled") /\ metadata.whitelistEnabled

\* metadata.jurisdictionRestrictions && metadata.jurisdictionRestrictions.length > 0
HasJurisdictions(metadata) ==
  /\ Has(metadata, "jurisdictionRestrictions")
  /\ Len(metadata.jurisdictionRestrictions) > 0

\* the contract declaration and constructor of ERC-20 and ERC-1400
HeaderPart(id, form) ==
  [id |-> id,
   contract |-> replaceWhitespace(form.name),
   name |-> form.name,
   symbol |-> form.symbol,
   totalSupply |-> TotalSupplyText(form),
   decimals |-> TemplateText(form.decimals)]

\* ComplianceFragment with the test compliance.length === 1
ComplianceFragment_SingleBlock(form) ==
  IF Len(form.blocks.compliance) = 1
  THEN << [id |-> "Compliance Controls",
           whitelistEnabled |-> WhitelistEnabled(form.metadata)] >>
  ELSE << >>

\* the fragment "Compliance Controls" of ERC-1400 and ERC-3525
ComplianceFragment(form) ==
  IF Len(form.blocks.compliance) > 0
  THEN << [id |-> "Compliance Controls",
           whitelistEnabled |-> WhitelistEnabled(form.metadata)] >>
  ELSE << >>

\* GenerateERC20 with the test of "Dividends" as the else branch of "KYC"
GenerateERC20_ElseIf(form) ==
  << HeaderPart("ERC-20 header", form) >>
  \o (IF Includes(form.blocks.compliance, "KYC")
      THEN << [id |-> "KYC Implementation"] >>
      ELSE IF Includes(form.blocks.features, "Dividends")
           THEN << [id |-> "Dividend Distribution"] >> ELSE << >>)
  \o << [id |-> "}"] >>

\* GenerateERC20 with the dividend fragment switched on by the metadata
GenerateERC20_MetadataFragment(form) ==
  << HeaderPart("ERC-20 header", form) >>
  \o (IF Includes(form.blocks.compliance, "KYC")
      THEN << [id |-> "KYC Implementation"] >> ELSE << >>)
  \o (IF Includes(form.blocks.features, "Dividends")
         \/ WhitelistEnabled(form.metadata)
      THEN << [id |-> "Dividend Distribution"] >> ELSE << >>)
  \o << [id |-> "}"] >>

\* the text of the branch standard === "ERC-20"
GenerateERC20(form) ==
  << HeaderPart("ERC-20 header", form) >>
  \o (IF Includes(form.blocks.compliance, "KYC")
      THEN << [id |-> "KYC Implementation"] >> ELSE << >>)
  \o (IF Includes(form.blocks.features, "Dividends")
      THEN << [id |-> "Dividend Distribution"] >> ELSE << >>)
  \o << [id |-> "}"] >>

\* the text of the branch standard === "ERC-1400"
GenerateERC1400(form) ==
  << HeaderPart("ERC-1400 header", form) >>
  \o ComplianceFragment(form)
  \o (IF HasJurisdictions(form.metadata)
      THEN << [id |-> "Jurisdiction Restrictions",
               restricted |-> form.metadata.jurisdictionRestrictions] >>
      ELSE << >>)
  \o << [id |-> "}"] >>

\* TrancheStatements over the tranches sorted by id
TrancheStatements_Sorted(tranches) ==
  LET n == Len(tranches)
      byId == CHOOSE p \in [1..n -> 1..n] :
                /\ \A i, j \in 1..n : i # j => p[i] # p[j]
                /\ \A i \in 1..(n - 1) :
                     tranches[p[i]].id <= tranches[p[i + 1]].id
  IN [i \in 1..n |->
        [id |-> "_createTranche",
         slotId |-> tranches[byId[i]].id,
         name |-> tranches[byId[i]].name,
         value |-> tranches[byId[i]].value,
         interestRate |-> toBasisPoints(tranches[byId[i]].interestRate)]]

\* TrancheStatements with the position in the list as the slot key
TrancheStatements_Position(tranches) ==
  [i \in 1..Len(tranches) |->
     [id |-> "_createTranche",
      slotId |-> i,
      name |-> tranches[i].name,
      value |-> tranches[i].value,
      interestRate |-> toBasisPoints(tranches[i].interestRate)]]

\* metadata.tranches.map((tranche) => `_createTranche(...)`)
TrancheStatements(tranches) ==
  [i \in 1..Len(tranches) |->
     [id |-> "_createTranche",
      slotId |-> tranches[i].id,
      name |-> tranches[i].name,
      value |-> tranches[i].value,
      interestRate |-> toBasisPoints(tranches[i].interestRate)]]

\* GenerateERC3525 with the tranche statements after the body fragments
GenerateERC3525_StatementsLast(form) ==
  << [id |-> "ERC-3525 header",
      contract |-> replaceWhitespace(form.name),
      name |-> form.name,
      symbol |-> form.symbol,
      decimals |-> TemplateText(form.decimals),
      totalSupply |-> TotalSupplyText(form),
      issuanceDate |-> IssuanceDateText(form.metadata),
      maturityDate |-> MaturityDateText(form.metadata),
      conversionRate |-> ConversionRateText(form.metadata)] >>
  \o << [id |-> "ERC-3525 functions"] >>
  \o ComplianceFragment(form)
  \o TrancheStatements(form.metadata.tranches)
  \o << [id |-> "}"] >>

\* the text of the branch standard === "ERC-3525"
GenerateERC3525(form) ==
  << [id |-> "ERC-3525 header",
      contract |-> replaceWhitespace(form.name),
      name |-> form.name,
      symbol |-> form.symbol,
      decimals |-> TemplateText(form.decimals),
      totalSupply |-> TotalSupplyText(form),
      issuanceDate |-> IssuanceDateText(form.metadata),
      maturityDate |-> MaturityDateText(form.metadata),
      conversionRate |-> ConversionRateText(form.metadata)] >>
  \o TrancheStatements(form.metadata.tranches)
  \o << [id |-> "ERC-3525 functions"] >>
  \o ComplianceFragment(form)
  \o << [id |-> "}"] >>

\* the standards that have a branch in generateContractPreview
GeneratedStandards == {"ERC-20", "ERC-1400", "ERC-3525"}

\* generateContractPreview raises a TypeError: metadata.tranches.map of a
\* metadata without tranches
GenerateThrows(form) ==
  form.standard = "ERC-3525" /\ ~Has(form.metadata, "tranches")

\* generateContractPreview with a final branch that falls back to ERC-20
generateContractPreview_Fallback(form) ==
  IF form.standard = "ERC-1400" THEN GenerateERC1400(form)
  ELSE IF form.standard = "ERC-3525" THEN GenerateERC3525(form)
  ELSE GenerateERC20(form)

\* generateContractPreview, for a form on which it does not throw
generateContractPreview(form) ==
  IF form.standard = "ERC-20" THEN GenerateERC20(form)
  ELSE IF form.standard = "ERC-1400" THEN GenerateERC1400(form)
  ELSE IF form.standard = "ERC-3525" THEN GenerateERC3525(form)
  ELSE << >>

\* what a call of generateContractPreview gives: the text it returns or the
\* error it raises
GenerationOutcome(form) ==
  IF GenerateThrows(form)
  THEN [error |-> "TypeError"]
  ELSE [text |-> generateContractPreview(form)]

\* the ids of the parts that a building block or metadata switches on
BodyFragmentIds ==
  {"KYC Implementation", "Dividend Distribution", "Compliance Controls",
   "Jurisdiction Restrictions"}

\* the body fragments of a text, in the order of the text
bodyFragments(text) == SelectSeq(text, LAMBDA part : part.id \in BodyFragmentIds)

\* the ids of the body fragments of a text
includedFragmentIds(text) ==
  {text[i].id : i \in {j \in DOMAIN text : text[j].id \in BodyFragmentIds}}

\* the tranche initialization statements of a text, in the order of the text
trancheStatements(text) == SelectSeq(text, LAMBDA part : part.id = "_createTranche")

(***************************************************************************)
(* What the builder tab renders                                            *)
(***************************************************************************)
RECURSIVE SumValues(_)
\* tranches.reduce((sum, t) => sum + t.value, 0)
SumValues(tranches) ==
  IF tranches = << >> THEN 0
  ELSE tranches[1].value + SumValues(Tail(tranches))

\* the tranche summary's test: sum === tokenForm.totalSupply
TrancheSumMatches(form) ==
  /\ Has(form, "totalSupply")
  /\ SumValues(form.metadata.tranches) = form.totalSupply

\* the condition of the conversion-rate, dates and tranche sections
ShowsStructuredSections(form) ==
  \/ form.standard = "ERC-3525"
  \/ IncludesStructuredProduct(form.metadata.product)
  \/ IncludesCreditLinked(form.metadata.product)

\* the condition of the "Compliance Settings" section
ShowsComplianceSettings(form) ==
  \/ form.standard = "ERC-1400"
  \/ ShowsStructuredSections(form)

\* the tranche summary is rendered: the tranche section with a non-empty list
TrancheSummaryShown(form) ==
  /\ form.standard = "ERC-3525" \/ Has(form.metadata, "product")
  /\ ShowsStructuredSections(form)
  /\ Has(form.metadata, "tranches")
  /\ Len(form.metadata.tranches) > 0

\* the tranche summary raises a TypeError: when the sum is not the total
\* supply it calls tokenForm.totalSupply.toLocaleString(), and the form has
\* no totalSupply
TrancheSummaryThrows(form) ==
  ~TrancheSumMatches(form) /\ ~Has(form, "totalSupply")

\* the render that follows a state update raises an error: rendering the
\* builder tab raises a TypeError
RenderThrows(form, tab) ==
  /\ tab = "builder"
     \* metadata.product.includes(...) of a metadata without product
  /\ \/ form.standard # "ERC-3525" /\ ~Has(form.metadata, "product")
     \/ /\ form.standard = "ERC-3525" \/ Has(form.metadata, "product")
        /\ \/ /\ ShowsStructuredSections(form)
                 \* metadata.tranches.length of a metadata without tranches
              /\ \/ ~Has(form.metadata, "tranches")
                 \/ TrancheSummaryShown(form) /\ TrancheSummaryThrows(form)
           \* metadata.jurisdictionRestrictions.includes(region)
           \/ /\ ShowsComplianceSettings(form)
              /\ ~Has(form.metadata, "jurisdictionRestrictions")
           \* {generateContractPreview() || "// No preview available"}
           \/ GenerateThrows(form)

(***************************************************************************)
(* State of the TokenBuilder component and of the store                    *)
(***************************************************************************)
VARIABLES
  tokenForm,         \* the form (the token specification)
  activeTab,         \* "tokens", "templates" or "builder"
  selectedToken,     \* the token row being edited, or Null
  isCreating,
  isSaving,
  isLoading,
  selectedTemplate,  \* the name of the chosen template, "" for null
  selectedCategory,
  selectedProduct,
  tokens,            \* the rows fetched last, newest first
  dbTokens,          \* store: table tokens of the project, oldest first
  dbVersions,        \* store: table token_versions, oldest first
  dbNextId,          \* store: the id of the next inserted token row
  saveCall,          \* the call of saveToken that waits for the store, or Null
  deleteCalls,       \* the ids whose deleteToken call waits for the store
  fetchCalls,        \* the number of calls of fetchTokens that wait
  renderError,       \* a render raised an error: the component is gone
  newTokenForm       \* history, read by the properties only: whether the form
                     \* was started by "New Token", the ids of the rows that
                     \* saves of it inserted, and whether the save in flight
                     \* was started from an earlier form

\* the components of src/src/components/captable, each a record of its
\* useState fields and of its calls that wait, and the tables they write
VARIABLES
  mintingDialog,       \* TokenMintingDialog and the open flag of its parent
  distributionManager, \* TokenDistributionManager
  distributionDialog,  \* TokenDistributionDialog
  allocationManager,   \* TokenAllocationManager
  capStore             \* store: subscriptions, token_allocations, token_designs

builderVars ==
  <<tokenForm, activeTab, selectedToken, isCreating, isSaving, isLoading,
    selectedTemplate, selectedCategory, selectedProduct, tokens,
    dbTokens, dbVersions, dbNextId, saveCall, deleteCalls, fetchCalls,
    renderError, newTokenForm>>

capTableVars ==
  <<mintingDialog, distributionManager, distributionDialog, allocationManager,
    capStore>>

vars == <<builderVars, capTableVars>>

storeVars ==
  <<dbTokens, dbVersions, dbNextId, saveCall, deleteCalls, fetchCalls, tokens,
    isLoading>>
templateVars == <<selectedTemplate, selectedCategory, selectedProduct>>

\* the form of useState and of resetTokenForm
EmptyForm ==
  [name |-> << >>,
   symbol |-> "",
   decimals |-> Num(18),
   standard |-> "ERC-20",
   totalSupply |-> 1000000,
   blocks |-> [compliance |-> << >>, features |-> << >>, governance |-> << >>],
   metadata |->
     [description |-> "",
      category |-> "",
      product |-> "",
      issuanceDate |-> "",
      maturityDate |-> "",
      tranches |-> << >>,
      whitelistEnabled |-> TRUE,
      jurisdictionRestrictions |-> << >>,
      conversionRate |-> 0]]

\* the component is mounted and reacts to events
Mounted == ~renderError

\* the builder tab is shown
OnBuilder == Mounted /\ activeTab = "builder"

\* the effect of an event on the form and the tab, followed by the render
Update(form, tab) ==
  /\ tokenForm' = form
  /\ activeTab' = tab
  /\ renderError' = (renderError \/ RenderThrows(form, tab))

\* setTokenForm((prev) => ({...prev, metadata: {...prev.metadata, [key]: v}}))
SetMetadata(key, v) ==
  Update([tokenForm EXCEPT !.metadata = With(tokenForm.metadata, key, v)],
         activeTab)

(***************************************************************************)
(* Inputs of the user                                                      *)
(***************************************************************************)
\* texts typed into the total supply and conversion rate fields
NumberInputs == {"", "900000"}
\* the building blocks the user toggles, per block type
BlockInputs ==
  [compliance |-> {"KYC", "AML"}, features |-> {"Dividends"},
   governance |-> {"Issuer Control"}]

\* parseInt(text) || 0
parseIntOr0(text) ==
  CASE text = "" -> 0
    [] text = "900000" -> 900000
    [] text = "100000" -> 100000
    [] text = "2.5" -> 2

\* parseFloat(text) || 0, in thousandths
parseFloatOr0(text) ==
  CASE text = "" -> 0
    [] text = "900000" -> 900000000
    [] text = "100000" -> 100000000
    [] text = "2.5" -> 2500
    [] text = "1.1" -> 1100

\* the date five years after a day, as toISOString().split("T")[0] gives it
FiveYearsLater(day) == "2030-01-01"

(***************************************************************************)
(* Navigation: New Token, the templates tab, the tab bar                   *)
(***************************************************************************)
\* handleCreateToken, with resetTokenForm
handleCreateToken ==
  /\ Mounted
  /\ selectedToken' = Null
  /\ isCreating' = TRUE
  /\ Update(EmptyForm, "templates")
  /\ selectedTemplate' = ""
  /\ selectedCategory' = ""
  /\ selectedProduct' = ""
  /\ newTokenForm' = [started |-> TRUE, inserted |-> {},
                      staleSave |-> ~IsNull(saveCall)]
  /\ UNCHANGED <<isSaving, storeVars, capTableVars>>

\* onValueChange of the tab bar; two triggers are disabled unless a token is
\* being created or is selected
setActiveTab(tab) ==
  /\ Mounted
  /\ tab # activeTab
  /\ tab \in {"templates", "builder"} => isCreating \/ ~IsNull(selectedToken)
  /\ Update(tokenForm, tab)
  /\ UNCHANGED <<selectedToken, isCreating, isSaving, templateVars, storeVars,
                 newTokenForm, capTableVars>>

handleSelectCategory(category) ==
  /\ Mounted
  /\ activeTab = "templates"
  /\ selectedCategory' = category
  /\ selectedProduct' = ""
  /\ UNCHANGED <<tokenForm, activeTab, renderError, selectedToken, isCreating,
                 isSaving, selectedTemplate, storeVars, newTokenForm, capTableVars>>

\* the form that handleSelectTemplate sets
TemplateForm(template, day) ==
  [name |-> IF template.name = "Credit Linked Note"
            THEN <<"CreditLinkedNote2025">> ELSE << >>,
   symbol |-> IF template.name = "Credit Linked Note" THEN "CLN" ELSE "",
   decimals |-> IF template.standard = "ERC-3525" THEN Num(0) ELSE Num(18),
   standard |-> template.standard,
   totalSupply |-> 1000000,
   blocks |-> template.defaultBlocks,
   metadata |->
     [description |-> "",
      category |-> template.category,
      product |-> template.name,
      issuanceDate |-> day,
      maturityDate |-> FiveYearsLater(day),
      tranches |->
        IF IncludesStructuredProduct(template.name) \/ IncludesCreditLinked(template.name)
          THEN << [id |-> 1, name |-> "Senior (AAA)", value |-> 700000,
                   interestRate |-> 3000],
                  [id |-> 2, name |-> "Mezzanine (BBB)", value |-> 200000,
                   interestRate |-> 5000],
                  [id |-> 3, name |-> "Junior (CCC)", value |-> 100000,
                   interestRate |-> 8000] >>
          ELSE << >>,
      whitelistEnabled |-> TRUE,
      jurisdictionRestrictions |-> << >>,
      conversionRate |-> 100]]

\* the effect of handleSelectTemplate
SelectTemplate(template, day) ==
  /\ selectedTemplate' = template.name
  /\ Update(TemplateForm(template, day), "builder")

\* a click on a template card of the chosen product
handleSelectTemplate(template) ==
  /\ Mounted
  /\ activeTab = "templates"
  /\ selectedProduct # ""
  /\ template.category = selectedProduct
  /\ \E day \in {"2025-01-01"} : SelectTemplate(template, day)
  /\ UNCHANGED <<selectedToken, isCreating, isSaving, selectedCategory,
                 selectedProduct, storeVars, newTokenForm, capTableVars>>

\* a click on a product of the chosen category
handleSelectProduct(product) ==
  /\ Mounted
  /\ activeTab = "templates"
  /\ selectedCategory # ""
  /\ product \in PRODUCT_CATEGORIES[selectedCategory]
  /\ selectedProduct' = product
  /\ LET matchingTemplates == {t \in TOKEN_TEMPLATES : t.category = product}
     IN IF Cardinality(matchingTemplates) = 1
        THEN \E t \in matchingTemplates : \E day \in {"2025-01-01"} :
               SelectTemplate(t, day)
        ELSE UNCHANGED <<tokenForm, activeTab, renderError, selectedTemplate>>
  /\ UNCHANGED <<selectedToken, isCreating, isSaving, selectedCategory, storeVars,
                 newTokenForm, capTableVars>>

\* a click on the card "Custom Template"
CustomTemplate ==
  /\ Mounted
  /\ activeTab = "templates"
  /\ selectedProduct # ""
  /\ Update([tokenForm EXCEPT !.metadata =
               With(With(tokenForm.metadata, "category", selectedCategory),
                    "product", selectedProduct)],
            "builder")
  /\ UNCHANGED <<selectedToken, isCreating, isSaving, templateVars, storeVars,
                 newTokenForm, capTableVars>>

(***************************************************************************)
(* The fields of the builder tab                                           *)
(***************************************************************************)
FormOnly ==
  UNCHANGED <<selectedToken, isCreating, isSaving, templateVars, storeVars,
              newTokenForm, capTableVars>>

\* handleInputChange of the fields name, symbol and decimals: the form takes
\* the text of the input element as it is
handleInputChange(field, value) ==
  /\ OnBuilder
  /\ Update(With(tokenForm, field, value), activeTab)
  /\ FormOnly

handleStandardChange(value) ==
  /\ OnBuilder
  /\ Update([tokenForm EXCEPT !.standard = value], activeTab)
  /\ FormOnly

\* onChange of the total supply field
TotalSupplyChange(text) ==
  /\ OnBuilder
  /\ Update(With(tokenForm, "totalSupply", parseIntOr0(text)), activeTab)
  /\ FormOnly

\* onChange of the conversion rate field
ConversionRateChange(text) ==
  /\ OnBuilder
  /\ ShowsStructuredSections(tokenForm)
  /\ SetMetadata("conversionRate", parseIntOr0(text))
  /\ FormOnly

\* onChange of the date fields issuanceDate and maturityDate
DateChange(field, date) ==
  /\ OnBuilder
  /\ ShowsStructuredSections(tokenForm)
  /\ SetMetadata(field, date)
  /\ FormOnly

\* onCheckedChange of the whitelist check box: whitelistEnabled: !!checked
WhitelistChange ==
  /\ OnBuilder
  /\ ShowsComplianceSettings(tokenForm)
  /\ SetMetadata("whitelistEnabled", ~WhitelistEnabled(tokenForm.metadata))
  /\ FormOnly

\* onCheckedChange of a region check box
JurisdictionChange(region) ==
  /\ OnBuilder
  /\ ShowsComplianceSettings(tokenForm)
  /\ LET list == tokenForm.metadata.jurisdictionRestrictions
     IN SetMetadata("jurisdictionRestrictions",
                    IF Includes(list, region)
                    THEN Without(list, region)
                    ELSE Append(list, region))
  /\ FormOnly

\* the block list after handleBlockToggle(blockType, blockId)
ToggledBlocks(blocks, blockType, blockId) ==
  IF Includes(blocks[blockType], blockId)
  THEN [blocks EXCEPT ![blockType] = Without(blocks[blockType], blockId)]
  ELSE [blocks EXCEPT ![blockType] = Append(blocks[blockType], blockId)]

\* a click on the row of a building block: one handleBlockToggle
handleBlockToggle(blockType, blockId) ==
  /\ OnBuilder
  /\ Update([tokenForm EXCEPT
               !.blocks = ToggledBlocks(tokenForm.blocks, blockType, blockId)],
            activeTab)
  /\ FormOnly

\* a click on the check box of a building block: onCheckedChange calls
\* handleBlockToggle and the click then reaches the onClick of the row, which
\* calls it again on the updated form
BlockCheckboxClick(blockType, blockId) ==
  /\ OnBuilder
  /\ Update([tokenForm EXCEPT
               !.blocks = ToggledBlocks(
                            ToggledBlocks(tokenForm.blocks, blockType, blockId),
                            blockType, blockId)],
            activeTab)
  /\ FormOnly

\* a render that writes the default of the conversion rate into the form
ContractPreviewRender_WritesDefault ==
  /\ OnBuilder
  /\ SetMetadata("conversionRate",
                 IF ConversionRateText(tokenForm.metadata) = "100"
                 THEN 100 ELSE tokenForm.metadata.conversionRate)
  /\ FormOnly

\* a render of the box "Contract Preview" of the builder tab: it calls
\* generateContractPreview(), which reads the form and sets no state
ContractPreviewRender ==
  /\ OnBuilder
  /\ UNCHANGED vars

(***************************************************************************)
(* The tranche editor                                                      *)
(***************************************************************************)
\* Math.max(...tranches.map((t) => t.id)) of a non-empty list
MaxTrancheId(tranches) ==
  CHOOSE m \in {tranches[i].id : i \in DOMAIN tranches} :
    \A i \in DOMAIN tranches : tranches[i].id <= m

\* newId as the length of the list plus one
NewTrancheId_Length(tranches) == Len(tranches) + 1

\* newId with Math.max(...ids, 0) and no increment for an empty list
NewTrancheId_FromZero(tranches) ==
  IF Len(tranches) > 0 THEN MaxTrancheId(tranches) + 1 ELSE 0

\* newId of the button "Add Tranche"
NewTrancheId(tranches) ==
  IF Len(tranches) > 0 THEN MaxTrancheId(tranches) + 1 ELSE 1

\* the tranche editor is rendered
TrancheEditorShown == OnBuilder /\ ShowsStructuredSections(tokenForm)

\* onClick of the button "Add Tranche"
AddTranche ==
  /\ TrancheEditorShown
  /\ Len(tokenForm.metadata.tranches) < MaxTranches
  /\ NewTrancheId(tokenForm.metadata.tranches) <= MaxSlotId
  /\ LET newId == NewTrancheId(tokenForm.metadata.tranches)
         \* the tranche that "Add Tranche" appends
         newTranche == [id |-> newId, name |-> "Tranche " \o ToString(newId),
                        value |-> 0, interestRate |-> 0]
     IN SetMetadata("tranches", Append(tokenForm.metadata.tranches, newTranche))
  /\ FormOnly

\* onClick of the delete button of the tranche at index
DeleteTranche(index) ==
  /\ TrancheEditorShown
  /\ index \in DOMAIN tokenForm.metadata.tranches
  /\ SetMetadata("tranches", RemoveAt(tokenForm.metadata.tranches, index))
  /\ FormOnly

\* onChange of the name, value and interest rate fields of a tranche
TrancheFieldChange(index, field, value) ==
  /\ TrancheEditorShown
  /\ index \in DOMAIN tokenForm.metadata.tranches
  /\ SetMetadata("tranches",
                 [tokenForm.metadata.tranches EXCEPT ![index][field] = value])
  /\ FormOnly

(***************************************************************************)
(* The token list and the store                                            *)
(***************************************************************************)
MaxTokenId == 2
MaxVersions == 2
MaxFetchCalls == 2

\* the form that handleSelectToken sets: it has no totalSupply
TokenToForm(token) ==
  [name |-> token.name,
   symbol |-> token.symbol,
   decimals |-> token.decimals,
   standard |-> token.standard,
   blocks |-> IF IsNull(token.blocks)
              THEN [compliance |-> << >>, features |-> << >>,
                    governance |-> << >>]
              ELSE token.blocks,
   metadata |-> IF IsNull(token.metadata)
                THEN [description |-> "", category |-> "", product |-> ""]
                ELSE token.metadata]

\* the effect of handleSelectToken(token)
SelectToken(token) ==
  /\ selectedToken' = token
  /\ Update(TokenToForm(token), "builder")
  /\ newTokenForm' = [started |-> FALSE, inserted |-> {},
                      staleSave |-> ~IsNull(saveCall)]

\* a click on a card of the token list
handleSelectToken(index) ==
  /\ Mounted
  /\ activeTab = "tokens"
  /\ ~isLoading
  /\ index \in DOMAIN tokens
  /\ SelectToken(tokens[index])
  /\ UNCHANGED <<isCreating, isSaving, templateVars, storeVars, capTableVars>>

\* onClick of the button "Cancel"
Cancel ==
  /\ OnBuilder
  /\ IF isCreating
     THEN /\ isCreating' = FALSE
          /\ Update(tokenForm, "tokens")
          /\ UNCHANGED <<selectedToken, newTokenForm>>
     ELSE /\ UNCHANGED isCreating
          /\ IF ~IsNull(selectedToken)
             THEN SelectToken(selectedToken)
             ELSE UNCHANGED <<selectedToken, tokenForm, activeTab, renderError,
                             newTokenForm>>
  /\ UNCHANGED <<isSaving, templateVars, storeVars, capTableVars>>

\* the start of fetchTokens: setIsLoading(true) and the query is sent
StartFetch ==
  /\ isLoading' = TRUE
  /\ fetchCalls' = fetchCalls + 1

\* the calls of fetchTokens that wait or that a waiting call will make
PendingFetches ==
  fetchCalls + Cardinality(deleteCalls) + (IF IsNull(saveCall) THEN 0 ELSE 1)

\* onClick of the button "Refresh"
Refresh ==
  /\ Mounted
  /\ PendingFetches < MaxFetchCalls
  /\ StartFetch
  /\ UNCHANGED <<tokenForm, activeTab, renderError, selectedToken, isCreating,
                 isSaving, templateVars, tokens, dbTokens, dbVersions,
                 dbNextId, saveCall, deleteCalls, newTokenForm, capTableVars>>

\* the answer of the store to fetchTokens
FetchDone(ok) ==
  /\ fetchCalls > 0
  /\ fetchCalls' = fetchCalls - 1
  /\ isLoading' = FALSE
  /\ tokens' = IF ok
                THEN [i \in 1..Len(dbTokens) |-> dbTokens[Len(dbTokens) + 1 - i]]
                ELSE tokens
  /\ UNCHANGED <<tokenForm, activeTab, renderError, selectedToken, isCreating,
                 isSaving, templateVars, dbTokens, dbVersions, dbNextId,
                 saveCall, deleteCalls, newTokenForm, capTableVars>>

\* the columns that saveToken writes from the form
FormColumns(form) ==
  [name |-> form.name, symbol |-> form.symbol, decimals |-> form.decimals,
   standard |-> form.standard, blocks |-> form.blocks,
   metadata |-> form.metadata]

\* the validation of saveToken rejects the form
SaveRejects(form) == form.name = << >> \/ form.symbol = "" \/ form.standard = ""

\* onClick of the button "Save" on a form that the validation rejects
SaveInvalid ==
  /\ OnBuilder
  /\ ~isSaving
  /\ SaveRejects(tokenForm)
  /\ UNCHANGED <<tokenForm, activeTab, renderError, selectedToken, isCreating,
                 isSaving, templateVars, tokens, isLoading, dbTokens,
                 dbVersions, dbNextId, saveCall, deleteCalls, fetchCalls,
                 newTokenForm, capTableVars>>

\* onClick of the button "Save": saveToken up to its first await
SaveBegin ==
  /\ OnBuilder
  /\ ~isSaving
  /\ ~SaveRejects(tokenForm)
  /\ ~GenerateThrows(tokenForm)
  /\ PendingFetches < MaxFetchCalls
  /\ IsNull(selectedToken) => dbNextId <= MaxTokenId
  /\ Len(dbVersions) < MaxVersions
  /\ isSaving' = TRUE
  /\ saveCall' = [pc |-> "token",
                  form |-> tokenForm,
                  selectedToken |-> selectedToken,
                  contractPreview |-> generateContractPreview(tokenForm)]
  /\ UNCHANGED <<tokenForm, activeTab, renderError, selectedToken, isCreating,
                 templateVars, tokens, isLoading, dbTokens, dbVersions,
                 dbNextId, deleteCalls, fetchCalls, newTokenForm, capTableVars>>

\* the row that saveToken inserts
InsertedRow(call, id) ==
  With(With(With(FormColumns(call.form), "id", id), "status", "DRAFT"),
       "contract_preview", call.contractPreview)

\* the store answers the update or insert of table tokens
SaveTokenWritten(ok) ==
  /\ ~IsNull(saveCall)
  /\ saveCall.pc = "token"
  /\ IF ~ok
     THEN \* if (error) throw error: catch and finally
          /\ saveCall' = Null
          /\ isSaving' = FALSE
          /\ newTokenForm' = [newTokenForm EXCEPT !.staleSave = FALSE]
          /\ UNCHANGED <<dbTokens, dbNextId>>
     ELSE /\ IF IsNull(saveCall.selectedToken)
             THEN /\ dbTokens' = Append(dbTokens, InsertedRow(saveCall, dbNextId))
                  /\ dbNextId' = dbNextId + 1
                  /\ newTokenForm' =
                       IF newTokenForm.started /\ ~newTokenForm.staleSave
                       THEN [newTokenForm EXCEPT !.inserted = @ \cup {dbNextId}]
                       ELSE newTokenForm
                  /\ saveCall' = With(With(saveCall, "pc", "version"), "data",
                                      InsertedRow(saveCall, dbNextId))
             ELSE /\ dbTokens' =
                       [i \in DOMAIN dbTokens |->
                          IF dbTokens[i].id = saveCall.selectedToken.id
                          THEN With(With(FormColumns(saveCall.form), "contract_preview",
                                         saveCall.contractPreview),
                                    "id", dbTokens[i].id) @@ dbTokens[i]
                          ELSE dbTokens[i]]
                  /\ dbNextId' = dbNextId
                  /\ saveCall' = With(saveCall, "pc", "version")
                  /\ UNCHANGED newTokenForm
          /\ UNCHANGED isSaving
  /\ UNCHANGED <<tokenForm, activeTab, renderError, selectedToken, isCreating,
                 templateVars, tokens, isLoading, dbVersions, deleteCalls,
                 fetchCalls, capTableVars>>

\* the store answers the insert into token_versions (its error is not read);
\* saveToken then runs to its end
SaveVersionWritten(ok) ==
  /\ ~IsNull(saveCall)
  /\ saveCall.pc = "version"
  /\ dbVersions' =
       IF ok
       THEN Append(dbVersions,
                   [token_id |-> IF IsNull(saveCall.selectedToken)
                                 THEN saveCall.data.id
                                 ELSE saveCall.selectedToken.id,
                    version |-> 1,
                    data |-> FormColumns(saveCall.form)])
       ELSE dbVersions
  /\ selectedToken' =
       IF IsNull(saveCall.selectedToken) THEN saveCall.data ELSE selectedToken
  /\ StartFetch
  /\ isCreating' = FALSE
  /\ isSaving' = FALSE
  /\ saveCall' = Null
  /\ newTokenForm' = [newTokenForm EXCEPT !.staleSave = FALSE]
  /\ UNCHANGED <<tokenForm, activeTab, renderError, templateVars, tokens,
                 dbTokens, dbNextId, deleteCalls, capTableVars>>

\* onClick of "Delete" in the dialog of a token card: the delete is sent
DeleteBegin(index) ==
  /\ Mounted
  /\ activeTab = "tokens"
  /\ ~isLoading
  /\ index \in DOMAIN tokens
  /\ tokens[index].id \notin deleteCalls
  /\ PendingFetches < MaxFetchCalls
  /\ deleteCalls' = deleteCalls \cup {tokens[index].id}
  /\ UNCHANGED <<tokenForm, activeTab, renderError, selectedToken, isCreating,
                 isSaving, templateVars, tokens, isLoading, dbTokens,
                 dbVersions, dbNextId, saveCall, fetchCalls, newTokenForm, capTableVars>>

\* the store answers the delete of deleteToken
DeleteDone(tokenId, ok) ==
  /\ tokenId \in deleteCalls
  /\ deleteCalls' = deleteCalls \ {tokenId}
  /\ IF ok
     THEN /\ dbTokens' = SelectSeq(dbTokens, LAMBDA row : row.id # tokenId)
          /\ StartFetch
          /\ selectedToken' = Null
          /\ Update(tokenForm, "tokens")
     ELSE UNCHANGED <<dbTokens, isLoading, fetchCalls, selectedToken,
                     tokenForm, activeTab, renderError>>
  /\ UNCHANGED <<isCreating, isSaving, templateVars, tokens, dbVersions,
                 dbNextId, saveCall, newTokenForm, capTableVars>>

(***************************************************************************)
(* TokenMintingDialog                                                      *)
(* (src/src/components/captable/TokenMintingDialog.tsx)                    *)
(***************************************************************************)
\* tokenSummaries.filter((s) => s.status === "ready_to_mint").map((s) => s.tokenType)
mintableTokenTypes(tokenSummaries) ==
  LET ready == SelectSeq(tokenSummaries, LAMBDA s : s.status = "ready_to_mint")
  IN [i \in 1..Len(ready) |-> ready[i].tokenType]

MintingOnly ==
  UNCHANGED <<builderVars, distributionManager, distributionDialog,
              allocationManager, capStore>>

\* onOpenChange(open): the parent opens the dialog; the button "Cancel",
\* disabled while minting, or the close control of the Dialog closes it
MintDialogOpenChange(open) ==
  /\ mintingDialog.open # open
  /\ mintingDialog' = [mintingDialog EXCEPT !.open = open]
  /\ MintingOnly

\* a click on the check box of a token type that is ready to mint:
\* handleTokenTypeSelection(tokenType, !!checked)
handleTokenTypeSelection(tokenType) ==
  /\ mintingDialog.open
  /\ Includes(mintableTokenTypes(mintingDialog.tokenSummaries), tokenType)
  /\ mintingDialog' =
       [mintingDialog EXCEPT !.selectedTokenTypes =
          IF Includes(@, tokenType) THEN Without(@, tokenType)
          ELSE Append(@, tokenType)]
  /\ MintingOnly

\* a click on the check box "Select All Ready to Mint": handleSelectAll(!checked)
MintSelectAll ==
  /\ mintingDialog.open
  /\ LET mintable == mintableTokenTypes(mintingDialog.tokenSummaries)
         checked == Len(mintingDialog.selectedTokenTypes) = Len(mintable)
     IN /\ Len(mintable) > 0
        /\ mintingDialog' =
             [mintingDialog EXCEPT !.selectedTokenTypes =
                IF checked THEN << >> ELSE mintable]
  /\ MintingOnly

\* a click on the check box "mint-confirmation", disabled while no token type
\* is selected
MintConfirmationChange ==
  /\ mintingDialog.open
  /\ Len(mintableTokenTypes(mintingDialog.tokenSummaries)) > 0
  /\ Len(mintingDialog.selectedTokenTypes) > 0
  /\ mintingDialog' = [mintingDialog EXCEPT !.confirmationChecked = ~@]
  /\ MintingOnly

\* handleMintTokens up to its await: the button "Mint Selected Tokens" can be
\* clicked, the guard of the handler passes and onMintComplete(
\* selectedTokenTypes) is called
handleMintTokens ==
  /\ mintingDialog.open
  /\ mintingDialog.confirmationChecked
  /\ Len(mintingDialog.selectedTokenTypes) > 0
  /\ ~mintingDialog.isMinting
  /\ ~(~mintingDialog.confirmationChecked
        \/ Len(mintingDialog.selectedTokenTypes) = 0)
  /\ mintingDialog' =
       [mintingDialog EXCEPT
          !.isMinting = TRUE,
          !.mintCall = [tokenTypes |-> mintingDialog.selectedTokenTypes]]
  /\ MintingOnly

\* handleMintTokens with the three resets moved into the finally block
MintComplete_ClearsOnFailure(ok) ==
  /\ ~IsNull(mintingDialog.mintCall)
  /\ mintingDialog' =
       [mintingDialog EXCEPT
          !.selectedTokenTypes = << >>,
          !.confirmationChecked = FALSE,
          !.open = FALSE,
          !.isMinting = FALSE,
          !.mintCall = Null]
  /\ MintingOnly

\* handleMintTokens after its await: onMintComplete resolved (ok) or rejected
MintComplete(ok) ==
  /\ ~IsNull(mintingDialog.mintCall)
  /\ mintingDialog' =
       IF ok
       THEN [mintingDialog EXCEPT
               !.selectedTokenTypes = << >>,
               !.confirmationChecked = FALSE,
               !.open = FALSE,
               !.isMinting = FALSE,
               !.mintCall = Null]
       ELSE [mintingDialog EXCEPT !.isMinting = FALSE, !.mintCall = Null]
  /\ MintingOnly

(***************************************************************************)
(* The store of the cap table                                              *)
(***************************************************************************)
\* the ids of the rows of table token_allocations
AllocationIds == {1, 2}

\* the elements of a list
Elements(list) == {list[i] : i \in DOMAIN list}

(***************************************************************************)
(* TokenDistributionManager and TokenDistributionDialog                    *)
(* (src/src/components/captable/TokenDistributionManager.tsx and the       *)
(* dialog in TokenAllocationManager.tsx)                                   *)
(***************************************************************************)
\* fetchDistributions: the rows of the project, transformed for the table
DistributionsOf(projectId) ==
  LET rows == SelectSeq(capStore.subscriptions,
                        LAMBDA s : /\ s.project_id = projectId
                                   /\ s.allocation_confirmed)
  IN [i \in 1..Len(rows) |->
        [id |-> rows[i].id, distributed |-> rows[i].distributed]]

DistributionOnly ==
  UNCHANGED <<builderVars, mintingDialog, allocationManager>>

\* the effect of the prop projectId changing: fetchDistributions() and
\* fetchTokenTypes() are called for the new project
DistributionProjectChange(projectId) ==
  /\ projectId # distributionManager.projectId
  /\ Len(distributionManager.distributionFetches) < MaxFetchCalls
  /\ Len(distributionManager.tokenTypeFetches) < MaxFetchCalls
  /\ distributionManager' =
       [distributionManager EXCEPT
          !.projectId = projectId,
          !.isLoading = TRUE,
          !.distributionFetches = Append(@, projectId),
          !.tokenTypeFetches = Append(@, projectId)]
  /\ UNCHANGED <<distributionDialog, capStore>>
  /\ DistributionOnly

\* the store answers a call of fetchDistributions made by the effect
DistributionsFetched(index, ok) ==
  /\ index \in DOMAIN distributionManager.distributionFetches
  /\ distributionManager' =
       [distributionManager EXCEPT
          !.distributionFetches =
             [i \in 1..(Len(@) - 1) |-> IF i < index THEN @[i] ELSE @[i + 1]],
          !.isLoading = FALSE,
          !.distributions =
             IF ok
             THEN DistributionsOf(distributionManager.distributionFetches[index])
             ELSE @]
  /\ UNCHANGED <<distributionDialog, capStore>>
  /\ DistributionOnly

\* the store answers a call of fetchTokenTypes with the token designs of the
\* project: {type: token.token_type, minted: token.status === "minted"}
TokenTypesFetched(index, ok) ==
  /\ index \in DOMAIN distributionManager.tokenTypeFetches
  /\ LET projectId == distributionManager.tokenTypeFetches[index]
         rows == SelectSeq(capStore.token_designs,
                           LAMBDA t : t.project_id = projectId)
         fetched == [i \in 1..Len(rows) |->
                       [type |-> rows[i].token_type,
                        minted |-> rows[i].status = "minted"]]
     IN distributionManager' =
       [distributionManager EXCEPT
          !.tokenTypeFetches =
             [i \in 1..(Len(@) - 1) |-> IF i < index THEN @[i] ELSE @[i + 1]],
          !.tokenTypes = IF ok THEN fetched ELSE @]
  /\ UNCHANGED <<distributionDialog, capStore>>
  /\ DistributionOnly

\* a click on the check box of a row; a row has one unless it is distributed:
\* handleSelectDistribution(id, !!checked)
handleSelectDistribution(id) ==
  /\ ~distributionManager.isDistributeDialogOpen
  /\ ~distributionManager.isLoading
  /\ \E d \in Elements(distributionManager.distributions) :
       d.id = id /\ ~d.distributed
  /\ distributionManager' =
       [distributionManager EXCEPT !.selectedIds =
          IF Includes(@, id) THEN Without(@, id) ELSE Append(@, id)]
  /\ UNCHANGED <<distributionDialog, capStore>>
  /\ DistributionOnly

\* a click on the check box of the table header: handleSelectAll(!checked)
DistributionSelectAll ==
  /\ ~distributionManager.isDistributeDialogOpen
  /\ LET rows == SelectSeq(distributionManager.distributions,
                           LAMBDA d : ~d.distributed)
         ids == [i \in 1..Len(rows) |-> rows[i].id]
         checked == Len(ids) > 0 /\ Len(distributionManager.selectedIds) = Len(ids)
     IN distributionManager' =
          [distributionManager EXCEPT !.selectedIds =
             IF checked THEN << >> ELSE ids]
  /\ UNCHANGED <<distributionDialog, capStore>>
  /\ DistributionOnly

\* setIsDistributeDialogOpen(open): onClick of the button "Distribute to
\* Selected", shown while the selection is not empty; onOpenChange(false) of
\* the dialog, by its button "Cancel", disabled while distributing, or by
\* the close control of the Dialog
setIsDistributeDialogOpen(open) ==
  /\ distributionManager.isDistributeDialogOpen # open
  /\ open => Len(distributionManager.selectedIds) > 0
  /\ distributionManager' =
       [distributionManager EXCEPT !.isDistributeDialogOpen = open]
  /\ UNCHANGED <<distributionDialog, capStore>>
  /\ DistributionOnly

\* the token types the radio group offers: those of
\* mintedTokenTypes = tokenTypes.filter((token) => token.minted)
OfferedTokenTypes ==
  {token.type :
     token \in {t \in Elements(distributionManager.tokenTypes) : t.minted}}

\* allTokensMinted: mintedTokenTypes.length > 0
allTokensMinted == OfferedTokenTypes # {}

\* onValueChange of the radio group "Token Type"
setSelectedTokenType(type) ==
  /\ distributionManager.isDistributeDialogOpen
  /\ allTokensMinted
  /\ type \in OfferedTokenTypes
  /\ distributionDialog' = [distributionDialog EXCEPT !.selectedTokenType = type]
  /\ UNCHANGED <<distributionManager, capStore>>
  /\ DistributionOnly

\* a click on the check box "wallet-verification"
setWalletWarning ==
  /\ distributionManager.isDistributeDialogOpen
  /\ allTokensMinted
  /\ distributionDialog' = [distributionDialog EXCEPT !.walletWarning = ~@]
  /\ UNCHANGED <<distributionManager, capStore>>
  /\ DistributionOnly

\* a click on the check box "distribution-confirmation"
setConfirmationChecked ==
  /\ distributionManager.isDistributeDialogOpen
  /\ distributionDialog.walletWarning
  /\ allTokensMinted
  /\ distributionDialog' = [distributionDialog EXCEPT !.confirmationChecked = ~@]
  /\ UNCHANGED <<distributionManager, capStore>>
  /\ DistributionOnly

\* handleDistribute up to its first await, the delay of two seconds: the
\* button "Distribute Tokens" can be clicked (the first six conjuncts) and
\* the test at the head of the handler decides whether it goes on; the call
\* keeps the onDistribute of the render it was clicked in, whose selectedIds
\* are those of that render
handleDistribute ==
  /\ distributionManager.isDistributeDialogOpen
  /\ distributionDialog.confirmationChecked
  /\ Len(distributionManager.selectedIds) > 0
  /\ ~distributionDialog.isDistributing
  /\ distributionDialog.walletWarning
  /\ allTokensMinted
  /\ IF /\ distributionDialog.confirmationChecked
        /\ Len(distributionManager.selectedIds) > 0
        /\ distributionDialog.selectedTokenType # ""
        /\ distributionDialog.walletWarning
     THEN distributionDialog' =
            [distributionDialog EXCEPT
               !.isDistributing = TRUE,
               !.call = [pc |-> "delay",
                         projectId |-> distributionManager.projectId,
                         selectedIds |-> distributionManager.selectedIds,
                         allocationIds |-> {}]]
     ELSE UNCHANGED distributionDialog
  /\ UNCHANGED <<distributionManager, capStore>>
  /\ DistributionOnly

\* the delay is over: handleDistribute calls onDistribute(), and
\* handleDistributeTokens sends the update of table subscriptions
onDistribute ==
  /\ ~IsNull(distributionDialog.call)
  /\ distributionDialog.call.pc = "delay"
  /\ distributionDialog' = [distributionDialog EXCEPT !.call.pc = "subscriptions"]
  /\ UNCHANGED <<distributionManager, capStore>>
  /\ DistributionOnly

\* handleDistributeTokens ends in its catch block: it returns without an
\* error, so handleDistribute goes on with onOpenChange(false) and finally
DistributeTokensCaught ==
  /\ distributionManager' =
       [distributionManager EXCEPT !.isDistributeDialogOpen = FALSE]
  /\ distributionDialog' =
       [distributionDialog EXCEPT
          !.isDistributing = FALSE,
          !.confirmationChecked = FALSE,
          !.walletWarning = FALSE,
          !.call = Null]

\* the store answers the update of table subscriptions
SubscriptionsWritten(ok) ==
  /\ ~IsNull(distributionDialog.call)
  /\ distributionDialog.call.pc = "subscriptions"
  /\ IF ok
     THEN /\ capStore' =
               [capStore EXCEPT !.subscriptions =
                  [i \in DOMAIN @ |->
                     IF Includes(distributionDialog.call.selectedIds, @[i].id)
                     THEN [@[i] EXCEPT !.distributed = TRUE]
                     ELSE @[i]]]
          /\ distributionDialog' = [distributionDialog EXCEPT !.call.pc = "select"]
          /\ UNCHANGED distributionManager
     ELSE /\ DistributeTokensCaught
          /\ UNCHANGED capStore
  /\ DistributionOnly

\* the store answers the select of the token allocations of the subscriptions
AllocationsSelected(ok) ==
  /\ ~IsNull(distributionDialog.call)
  /\ distributionDialog.call.pc = "select"
  /\ IF ok
     THEN LET tokenAllocations ==
                {a.id : a \in {b \in Elements(capStore.token_allocations) :
                                 Includes(distributionDialog.call.selectedIds,
                                          b.subscription_id)}}
          IN IF tokenAllocations # {}
             THEN /\ distributionDialog' =
                       [distributionDialog EXCEPT
                          !.call.pc = "allocations",
                          !.call.allocationIds = tokenAllocations]
                  /\ UNCHANGED distributionManager
             ELSE \* await fetchDistributions()
                  /\ distributionDialog' =
                       [distributionDialog EXCEPT !.call.pc = "fetch"]
                  /\ distributionManager' =
                       [distributionManager EXCEPT !.isLoading = TRUE]
     ELSE DistributeTokensCaught
  /\ UNCHANGED capStore
  /\ DistributionOnly

\* the store answers the update of table token_allocations
AllocationsWritten(ok) ==
  /\ ~IsNull(distributionDialog.call)
  /\ distributionDialog.call.pc = "allocations"
  /\ IF ok
     THEN /\ capStore' =
               [capStore EXCEPT !.token_allocations =
                  [i \in DOMAIN @ |->
                     IF @[i].id \in distributionDialog.call.allocationIds
                     THEN [@[i] EXCEPT !.distributed = TRUE]
                     ELSE @[i]]]
          \* await fetchDistributions()
          /\ distributionDialog' = [distributionDialog EXCEPT !.call.pc = "fetch"]
          /\ distributionManager' = [distributionManager EXCEPT !.isLoading = TRUE]
     ELSE /\ DistributeTokensCaught
          /\ UNCHANGED capStore
  /\ DistributionOnly

\* the store answers the fetchDistributions() that handleDistributeTokens
\* awaits, which catches its own error; handleDistributeTokens then clears
\* the selection and closes the dialog, and handleDistribute runs to its end
DistributeTokensDone(ok) ==
  /\ ~IsNull(distributionDialog.call)
  /\ distributionDialog.call.pc = "fetch"
  /\ distributionManager' =
       [distributionManager EXCEPT
          !.isLoading = FALSE,
          !.distributions =
             IF ok THEN DistributionsOf(distributionDialog.call.projectId) ELSE @,
          !.selectedIds = << >>,
          !.isDistributeDialogOpen = FALSE]
  /\ distributionDialog' =
       [distributionDialog EXCEPT
          !.isDistributing = FALSE,
          !.confirmationChecked = FALSE,
          !.walletWarning = FALSE,
          !.call = Null]
  /\ UNCHANGED capStore
  /\ DistributionOnly

(***************************************************************************)
(* TokenAllocationManager                                                  *)
(* (src/src/components/captable/TokenAllocationManager.tsx)                *)
(***************************************************************************)
MaxCalls == 1

AllocationOnly ==
  UNCHANGED <<builderVars, mintingDialog, distributionManager,
              distributionDialog>>

\* a call of a handler that waits for the store: what it does and the values
\* it read from the render it was called in
AllocationCall(op, id, ids, amount, newStatus) ==
  [op |-> op, id |-> id, ids |-> ids, amount |-> amount,
   newStatus |-> newStatus]

\* the handler sends its write to the store
SendAllocationCall(call) ==
  /\ BagCardinality(allocationManager.calls) < MaxCalls
  /\ allocationManager' =
       [allocationManager EXCEPT !.calls = @ (+) SetToBag({call})]
  /\ UNCHANGED capStore
  /\ AllocationOnly

\* the table can be clicked: no dialog covers it
AllocationTableShown ==
  /\ ~allocationManager.isConfirmDialogOpen
  /\ ~allocationManager.isBulkStatusUpdateOpen

\* the ids of the rows of the table: filteredAllocations.map((a) => a.id)
allocationIds(allocations) == [i \in 1..Len(allocations) |-> allocations[i].id]

\* the calls of fetchAllocations that wait or that a waiting call will make
PendingAllocationFetches ==
  allocationManager.fetches
    + BagCardinality(
        BagOfAll(LAMBDA call : call.op,
                 [call \in {c \in BagToSet(allocationManager.calls) :
                              c.op = "confirm"}
                    |-> allocationManager.calls[call]]))

\* onClick of the button "Refresh data", disabled while loading
AllocationRefresh ==
  /\ AllocationTableShown
  /\ ~allocationManager.isLoading
  /\ PendingAllocationFetches < MaxFetchCalls
  /\ allocationManager' =
       [allocationManager EXCEPT !.isLoading = TRUE, !.fetches = @ + 1]
  /\ UNCHANGED capStore
  /\ AllocationOnly

\* the store answers a call of fetchAllocations
AllocationsFetched(ok) ==
  /\ allocationManager.fetches > 0
  /\ LET rows == SelectSeq(capStore.token_allocations,
                           LAMBDA a : a.project_id = "p1")
         transformedAllocations ==
           [i \in 1..Len(rows) |->
              [id |-> rows[i].id,
               allocatedAmount |-> rows[i].token_amount,
               allocationConfirmed |-> rows[i].allocation_date,
               distributed |-> rows[i].distributed]]
     IN allocationManager' =
          [allocationManager EXCEPT
             !.fetches = @ - 1,
             !.isLoading = FALSE,
             !.allocations = IF ok THEN transformedAllocations ELSE @]
  /\ UNCHANGED capStore
  /\ AllocationOnly

\* a click on the check box of a row: handleSelectAllocation(id, !checked)
handleSelectAllocation(allocationId) ==
  /\ AllocationTableShown
  /\ Includes(allocationIds(allocationManager.allocations), allocationId)
  /\ allocationManager' =
       [allocationManager EXCEPT !.selectedAllocationIds =
          IF Includes(@, allocationId) THEN Without(@, allocationId)
          ELSE Append(@, allocationId)]
  /\ UNCHANGED capStore
  /\ AllocationOnly

\* a click on the check box of the table header: handleSelectAll(isSelected)
AllocationSelectAll(isSelected) ==
  /\ AllocationTableShown
  /\ allocationManager' =
       [allocationManager EXCEPT !.selectedAllocationIds =
          IF isSelected THEN allocationIds(allocationManager.allocations)
          ELSE << >>]
  /\ UNCHANGED capStore
  /\ AllocationOnly

\* handleUpdateAllocation(id, amount) up to its await
handleUpdateAllocation(id, amount) ==
  /\ AllocationTableShown
  /\ Includes(allocationIds(allocationManager.allocations), id)
  /\ SendAllocationCall(AllocationCall("update", id, {}, amount, ""))

\* handleDeleteAllocation(id) up to its await
handleDeleteAllocation(id) ==
  /\ AllocationTableShown
  /\ Includes(allocationIds(allocationManager.allocations), id)
  /\ SendAllocationCall(AllocationCall("delete", id, {}, 0, ""))

\* setIsConfirmDialogOpen(open): onConfirmAllocations of the table opens the
\* confirmation dialog, onOpenChange(false) of the dialog closes it
setIsConfirmDialogOpen(open) ==
  /\ IF open
     THEN AllocationTableShown /\ Len(allocationManager.selectedAllocationIds) > 0
     ELSE allocationManager.isConfirmDialogOpen
  /\ allocationManager' = [allocationManager EXCEPT !.isConfirmDialogOpen = open]
  /\ UNCHANGED capStore
  /\ AllocationOnly

\* handleConfirmAllocations up to its await: onConfirm of the dialog
handleConfirmAllocations ==
  /\ allocationManager.isConfirmDialogOpen
  /\ PendingAllocationFetches < MaxFetchCalls
  /\ SendAllocationCall(
       AllocationCall("confirm", 0,
                      Elements(allocationManager.selectedAllocationIds),
                      0, ""))

\* setIsBulkStatusUpdateOpen(open): onClick of the button "Update Status",
\* shown while the selection is not empty, and onOpenChange(false) of the
\* bulk status dialog
setIsBulkStatusUpdateOpen(open) ==
  /\ IF open
     THEN AllocationTableShown /\ Len(allocationManager.selectedAllocationIds) > 0
     ELSE allocationManager.isBulkStatusUpdateOpen
  /\ allocationManager' = [allocationManager EXCEPT !.isBulkStatusUpdateOpen = open]
  /\ UNCHANGED capStore
  /\ AllocationOnly

\* onConfirm(newStatus) of the bulk status dialog up to its await; it returns
\* at once when the selection is empty
BulkStatusUpdateConfirm(newStatus) ==
  /\ allocationManager.isBulkStatusUpdateOpen
  /\ IF Len(allocationManager.selectedAllocationIds) = 0
     THEN UNCHANGED <<allocationManager, capStore>> /\ AllocationOnly
     ELSE SendAllocationCall(
            AllocationCall("bulk", 0,
                           Elements(allocationManager.selectedAllocationIds),
                           0, newStatus))

\* the store answers the update of handleUpdateAllocation
UpdateAllocationDone(call, ok) ==
  /\ BagIn(call, allocationManager.calls)
  /\ call.op = "update"
  /\ IF ok
     THEN /\ capStore' =
               [capStore EXCEPT !.token_allocations =
                  [i \in DOMAIN @ |->
                     IF @[i].id = call.id
                     THEN [@[i] EXCEPT !.token_amount = call.amount]
                     ELSE @[i]]]
          /\ allocationManager' =
               [allocationManager EXCEPT
                  !.calls = @ (-) SetToBag({call}),
                  !.allocations =
                     [i \in DOMAIN @ |->
                        IF @[i].id = call.id
                        THEN [@[i] EXCEPT !.allocatedAmount = call.amount]
                        ELSE @[i]]]
     ELSE /\ UNCHANGED capStore
          /\ allocationManager' =
               [allocationManager EXCEPT
                  !.calls = @ (-) SetToBag({call})]
  /\ AllocationOnly

\* handleDeleteAllocation that takes the row out of the list before it reads
\* the answer of the store
DeleteAllocationDone_Optimistic(call, ok) ==
  /\ BagIn(call, allocationManager.calls)
  /\ call.op = "delete"
  /\ capStore' =
       IF ok
       THEN [capStore EXCEPT !.token_allocations =
               SelectSeq(@, LAMBDA a : a.id # call.id)]
       ELSE capStore
  /\ allocationManager' =
       [allocationManager EXCEPT
          !.calls = @ (-) SetToBag({call}),
          !.allocations = SelectSeq(@, LAMBDA a : a.id # call.id)]
  /\ AllocationOnly

\* the store answers the delete of handleDeleteAllocation
DeleteAllocationDone(call, ok) ==
  /\ BagIn(call, allocationManager.calls)
  /\ call.op = "delete"
  /\ IF ok
     THEN /\ capStore' =
               [capStore EXCEPT !.token_allocations =
                  SelectSeq(@, LAMBDA a : a.id # call.id)]
          /\ allocationManager' =
               [allocationManager EXCEPT
                  !.calls = @ (-) SetToBag({call}),
                  !.allocations = SelectSeq(@, LAMBDA a : a.id # call.id)]
     ELSE /\ UNCHANGED capStore
          /\ allocationManager' =
               [allocationManager EXCEPT
                  !.calls = @ (-) SetToBag({call})]
  /\ AllocationOnly

\* the store answers the update of handleConfirmAllocations
ConfirmAllocationsDone(call, ok) ==
  /\ BagIn(call, allocationManager.calls)
  /\ call.op = "confirm"
  /\ IF ok
     THEN /\ capStore' =
               [capStore EXCEPT !.token_allocations =
                  [i \in DOMAIN @ |->
                     IF @[i].id \in call.ids
                     THEN [@[i] EXCEPT !.allocation_date = TRUE]
                     ELSE @[i]]]
          /\ allocationManager' =
               [allocationManager EXCEPT
                  !.calls = @ (-) SetToBag({call}),
                  !.allocations =
                     [i \in DOMAIN @ |->
                        IF @[i].id \in call.ids
                        THEN [@[i] EXCEPT !.allocationConfirmed = TRUE]
                        ELSE @[i]],
                  !.selectedAllocationIds = << >>,
                  !.isConfirmDialogOpen = FALSE,
                  \* fetchAllocations()
                  !.isLoading = TRUE,
                  !.fetches = @ + 1]
     ELSE /\ UNCHANGED capStore
          /\ allocationManager' =
               [allocationManager EXCEPT
                  !.calls = @ (-) SetToBag({call})]
  /\ AllocationOnly

\* the columns that the bulk status update writes
BulkUpdated(row, newStatus, confirmedKey) ==
  CASE newStatus = "confirmed" -> [row EXCEPT ![confirmedKey] = TRUE]
    [] newStatus = "unconfirmed" -> [row EXCEPT ![confirmedKey] = FALSE]
    [] newStatus = "distributed" -> [row EXCEPT !.distributed = TRUE]
    [] newStatus = "not_distributed" -> [row EXCEPT !.distributed = FALSE]

\* the store answers the update of the bulk status dialog's onConfirm
BulkStatusUpdateDone(call, ok) ==
  /\ BagIn(call, allocationManager.calls)
  /\ call.op = "bulk"
  /\ IF ok
     THEN /\ capStore' =
               [capStore EXCEPT !.token_allocations =
                  [i \in DOMAIN @ |->
                     IF @[i].id \in call.ids
                     THEN BulkUpdated(@[i], call.newStatus, "allocation_date")
                     ELSE @[i]]]
          /\ allocationManager' =
               [allocationManager EXCEPT
                  !.calls = @ (-) SetToBag({call}),
                  !.allocations =
                     [i \in DOMAIN @ |->
                        IF @[i].id \in call.ids
                        THEN BulkUpdated(@[i], call.newStatus,
                                         "allocationConfirmed")
                        ELSE @[i]],
                  !.selectedAllocationIds = << >>]
     ELSE /\ UNCHANGED capStore
          /\ allocationManager' =
               [allocationManager EXCEPT
                  !.calls = @ (-) SetToBag({call})]
  /\ AllocationOnly

(***************************************************************************)
(* Specifications                                                          *)
(***************************************************************************)
\* rows of table tokens that another writer of the store left there:
\* handleSelectToken and the token list expect rows without blocks or
\* metadata, and the store does not check the metadata of a row
StoredTranche(id, value) ==
  [id |-> id, name |-> "Tranche " \o ToString(id), value |-> value,
   interestRate |-> 3000]

StoredMetadata(product, tranches) ==
  [description |-> "", category |-> "", product |-> product,
   tranches |-> tranches,
   whitelistEnabled |-> TRUE, jurisdictionRestrictions |-> << >>,
   conversionRate |-> 100]

StoredRow(standard, blocks, metadata) ==
  [id |-> 1, name |-> <<"Legacy">>, symbol |-> "LGC", decimals |-> Num(18),
   standard |-> standard, blocks |-> blocks, metadata |-> metadata,
   status |-> "DRAFT", contract_preview |-> << >>]

StoredRows ==
  { StoredRow("ERC-20", Null, Null),
    StoredRow("ERC-3525", Null,
              StoredMetadata("Credit Linked Note",
                             <<StoredTranche(1, 700000), StoredTranche(2, 300000)>>)),
    StoredRow("ERC-1400", Null,
              StoredMetadata("", <<StoredTranche(2, 300000), StoredTranche(1, 700000)>>)),
    StoredRow("ERC-1400", Null,
              StoredMetadata("", <<StoredTranche(2, 300000), StoredTranche(2, 700000)>>)),
    \* a row without metadata of the tranche-bearing standard
    StoredRow("ERC-3525", Null, Null),
    \* a row that names a building block the form no longer offers
    StoredRow("ERC-1400",
              [compliance |-> <<"Removed Module">>, features |-> << >>,
               governance |-> << >>],
              StoredMetadata("", << >>)) }

\* the components of the cap table after their construction
InitCapTable ==
  \* the mint dialog after useState, closed; the token summaries of its
  \* parent: three standards ready to mint and one that is not
  /\ mintingDialog =
         [open |-> FALSE,
          tokenSummaries |-> << [tokenType |-> "ERC-20", status |-> "ready_to_mint"],
               [tokenType |-> "ERC-721", status |-> "ready_to_mint"],
               [tokenType |-> "ERC-1400", status |-> "ready_to_mint"],
               [tokenType |-> "ERC-3525", status |-> "pending"] >>,
          selectedTokenTypes |-> << >>,
          isMinting |-> FALSE,
          confirmationChecked |-> FALSE,
          mintCall |-> Null]
  \* the distribution manager after useState and its mount effect, which
  \* calls fetchDistributions and fetchTokenTypes
  /\ distributionManager =
         [projectId |-> "p1",
          distributions |-> << >>,
          isLoading |-> TRUE,
          selectedIds |-> << >>,
          isDistributeDialogOpen |-> FALSE,
          tokenTypes |-> << >>,
          distributionFetches |-> <<"p1">>,
          tokenTypeFetches |-> <<"p1">>]
  \* the distribution dialog after useState: it is first rendered with
  \* tokenTypes = [], so selectedTokenType starts as ""
  /\ distributionDialog =
         [isDistributing |-> FALSE,
          confirmationChecked |-> FALSE,
          walletWarning |-> FALSE,
          selectedTokenType |-> "",
          call |-> Null]
  \* the allocation manager after useState and its mount effect, which calls
  \* fetchAllocations
  /\ allocationManager =
         [allocations |-> << >>,
          isLoading |-> TRUE,
          selectedAllocationIds |-> << >>,
          isConfirmDialogOpen |-> FALSE,
          isBulkStatusUpdateOpen |-> FALSE,
          fetches |-> 1,
          calls |-> EmptyBag]
  \* the tables of the store: one subscription with two token allocations,
  \* and the token designs of two projects
  /\ capStore =
         [subscriptions |->
            << [id |-> 1, project_id |-> "p1", allocation_confirmed |-> TRUE,
                distributed |-> FALSE] >>,
          token_allocations |->
            << [id |-> 1, subscription_id |-> 1, project_id |-> "p1",
                token_amount |-> 100, allocation_date |-> TRUE,
                distributed |-> FALSE],
               [id |-> 2, subscription_id |-> 1, project_id |-> "p1",
                token_amount |-> 100, allocation_date |-> FALSE,
                distributed |-> FALSE] >>,
          token_designs |->
            << [project_id |-> "p1", token_type |-> "ERC-20", status |-> "minted"],
               [project_id |-> "p1", token_type |-> "ERC-1400", status |-> "draft"],
               [project_id |-> "p2", token_type |-> "ERC-20", status |-> "draft"],
               [project_id |-> "p2", token_type |-> "ERC-1400", status |-> "minted"] >>]

\* the component after its construction and its mount effect, which calls
\* fetchTokens, over a store that holds the rows
InitOver(rows) ==
  /\ tokenForm = EmptyForm
  /\ activeTab = "tokens"
  /\ selectedToken = Null
  /\ isCreating = FALSE
  /\ isSaving = FALSE
  /\ isLoading = TRUE
  /\ selectedTemplate = ""
  /\ selectedCategory = ""
  /\ selectedProduct = ""
  /\ tokens = << >>
  /\ dbTokens = rows
  /\ dbVersions = << >>
  /\ dbNextId = Len(rows) + 1
  /\ saveCall = Null
  /\ deleteCalls = {}
  /\ fetchCalls = 1
  /\ renderError = FALSE
  /\ newTokenForm = [started |-> FALSE, inserted |-> {}, staleSave |-> FALSE]
  /\ InitCapTable

\* the clicks of the templates tab: the categories and products the user picks
CategoryInputs == {"Traditional Assets"}
ProductInputs == {"Structured Products", "Bonds"}

\* New Token, the tab bar and the templates tab
Navigate ==
  \/ handleCreateToken
  \/ \E tab \in {"tokens", "templates", "builder"} : setActiveTab(tab)
  \/ \E c \in CategoryInputs : handleSelectCategory(c)
  \/ \E product \in ProductInputs : handleSelectProduct(product)
  \/ \E t \in TOKEN_TEMPLATES : handleSelectTemplate(t)
  \/ CustomTemplate

\* a project without tokens
Init == InitOver(<< >>)

\* the standard, the building blocks and the compliance settings of the form
NextBlocks ==
  \/ Navigate
  \/ \E v \in TOKEN_STANDARDS : handleStandardChange(v)
  \/ WhitelistChange
  \/ \E r \in {"US", "EU"} : JurisdictionChange(r)
  \/ \E bt \in DOMAIN BlockInputs : \E b \in BlockInputs[bt] : handleBlockToggle(bt, b)
  \/ \E bt \in DOMAIN BlockInputs : \E b \in BlockInputs[bt] : BlockCheckboxClick(bt, b)

SpecBlocks == Init /\ [][NextBlocks]_vars

\* the tranche editor and the total supply
NextTranches ==
  \/ Navigate
  \/ \E text \in NumberInputs : TotalSupplyChange(text)
  \/ AddTranche
  \/ \E i \in 1..MaxTranches : DeleteTranche(i)
  \/ \E i \in 1..MaxTranches : \E text \in {"100000"} :
       TrancheFieldChange(i, "value", parseIntOr0(text))

SpecTranches == Init /\ [][NextTranches]_vars

\* the token list, saving and deleting, in a project without tokens
NextStore ==
  \/ handleCreateToken
  \/ \E tab \in {"tokens", "templates", "builder"} : setActiveTab(tab)
  \/ \E c \in CategoryInputs : handleSelectCategory(c)
  \/ \E product \in ProductInputs : handleSelectProduct(product)
  \/ \E t \in TOKEN_TEMPLATES : handleSelectTemplate(t)
  \/ \E index \in 1..MaxTokenId : handleSelectToken(index)
  \/ Cancel
  \/ ContractPreviewRender
  \/ Refresh
  \/ \E ok \in BOOLEAN : FetchDone(ok)
  \/ SaveInvalid
  \/ SaveBegin
  \/ \E ok \in BOOLEAN : SaveTokenWritten(ok)
  \/ \E ok \in BOOLEAN : SaveVersionWritten(ok)
  \/ \E index \in 1..MaxTokenId : DeleteBegin(index)
  \/ \E id \in 1..MaxTokenId : \E ok \in BOOLEAN : DeleteDone(id, ok)

SpecStore == Init /\ [][NextStore]_vars

\* saving the form of a new token and of the token just saved
NextSave ==
  \/ handleCreateToken
  \/ \E tab \in {"tokens", "templates", "builder"} : setActiveTab(tab)
  \/ \E c \in CategoryInputs : handleSelectCategory(c)
  \/ \E product \in ProductInputs : handleSelectProduct(product)
  \/ \E t \in TOKEN_TEMPLATES : handleSelectTemplate(t)
  \/ ContractPreviewRender
  \/ \E ok \in BOOLEAN : FetchDone(ok)
  \/ SaveInvalid
  \/ SaveBegin
  \/ \E ok \in BOOLEAN : SaveTokenWritten(ok)
  \/ \E ok \in BOOLEAN : SaveVersionWritten(ok)

SpecSave == Init /\ [][NextSave]_vars

\* a new token and the clicks of "Save", "Cancel", "New Token" and of the
\* cards of the token list, in any order
NextNewToken ==
  \/ handleCreateToken
  \/ \E tab \in {"tokens", "templates", "builder"} : setActiveTab(tab)
  \/ \E c \in CategoryInputs : handleSelectCategory(c)
  \/ \E product \in ProductInputs : handleSelectProduct(product)
  \/ \E t \in TOKEN_TEMPLATES : handleSelectTemplate(t)
  \/ \E index \in 1..MaxTokenId : handleSelectToken(index)
  \/ Cancel
  \/ \E ok \in BOOLEAN : FetchDone(ok)
  \/ SaveInvalid
  \/ SaveBegin
  \/ \E ok \in BOOLEAN : SaveTokenWritten(ok)
  \/ \E ok \in BOOLEAN : SaveVersionWritten(ok)

SpecNewToken == Init /\ [][NextNewToken]_vars

\* loading a stored token into the form and editing it
NextStored ==
  \/ handleCreateToken
  \/ \E tab \in {"tokens", "templates", "builder"} : setActiveTab(tab)
  \/ \E index \in 1..MaxTokenId : handleSelectToken(index)
  \/ Cancel
  \/ Refresh
  \/ \E ok \in BOOLEAN : FetchDone(ok)
  \/ \E v \in TOKEN_STANDARDS : handleStandardChange(v)
  \/ \E text \in NumberInputs : TotalSupplyChange(text)
  \/ AddTranche
  \/ \E i \in 1..MaxTranches : DeleteTranche(i)

SpecStored ==
  (\E row \in StoredRows : InitOver(<<row>>)) /\ [][NextStored]_vars

\* the text fields of the form and the rate field of a tranche
NextFields ==
  \/ Navigate
  \/ \E v \in {<< >>, <<"Note", " ", "A">>, <<"Note", "-", "A">>} :
       handleInputChange("name", v)
  \/ \E v \in {"", "NTA"} : handleInputChange("symbol", v)
  \/ \E v \in {"6", "19"} : handleInputChange("decimals", [type |-> "string", s |-> v])
  \/ \E text \in NumberInputs : ConversionRateChange(text)
  \/ \E d \in {"", "2030-01-01"} : DateChange("maturityDate", d)
  \/ \E i \in 1..MaxTranches : \E text \in {"", "2.5", "1.1"} :
       TrancheFieldChange(i, "interestRate", parseFloatOr0(text))

SpecFields == Init /\ [][NextFields]_vars

\* the mint dialog
NextMinting ==
  \/ \E open \in BOOLEAN : MintDialogOpenChange(open)
  \/ \E tokenType \in TOKEN_STANDARDS : handleTokenTypeSelection(tokenType)
  \/ MintSelectAll
  \/ MintConfirmationChange
  \/ handleMintTokens
  \/ \E ok \in BOOLEAN : MintComplete(ok)

SpecMinting == Init /\ [][NextMinting]_vars

\* the distribution manager and its dialog
NextDistribution ==
  \/ \E projectId \in {"p1", "p2"} : DistributionProjectChange(projectId)
  \/ \E index \in 1..MaxFetchCalls : \E ok \in BOOLEAN :
       DistributionsFetched(index, ok)
  \/ \E index \in 1..MaxFetchCalls : \E ok \in BOOLEAN :
       TokenTypesFetched(index, ok)
  \/ \E id \in {1} : handleSelectDistribution(id)
  \/ DistributionSelectAll
  \/ \E open \in BOOLEAN : setIsDistributeDialogOpen(open)
  \/ \E type \in TOKEN_STANDARDS : setSelectedTokenType(type)
  \/ setWalletWarning
  \/ setConfirmationChecked
  \/ handleDistribute
  \/ onDistribute
  \/ \E ok \in BOOLEAN : SubscriptionsWritten(ok)
  \/ \E ok \in BOOLEAN : AllocationsSelected(ok)
  \/ \E ok \in BOOLEAN : AllocationsWritten(ok)
  \/ \E ok \in BOOLEAN : DistributeTokensDone(ok)

SpecDistribution == Init /\ [][NextDistribution]_vars

\* the allocation manager
NextAllocation ==
  \/ AllocationRefresh
  \/ \E ok \in BOOLEAN : AllocationsFetched(ok)
  \/ \E id \in AllocationIds : handleSelectAllocation(id)
  \/ \E isSelected \in BOOLEAN : AllocationSelectAll(isSelected)
  \/ \E id \in AllocationIds : \E amount \in {50} :
       handleUpdateAllocation(id, amount)
  \/ \E id \in AllocationIds : handleDeleteAllocation(id)
  \/ \E open \in BOOLEAN : setIsConfirmDialogOpen(open)
  \/ handleConfirmAllocations
  \/ \E open \in BOOLEAN : setIsBulkStatusUpdateOpen(open)
  \/ \E newStatus \in {"unconfirmed", "distributed"} :
       BulkStatusUpdateConfirm(newStatus)
  \/ \E call \in BagToSet(allocationManager.calls) : \E ok \in BOOLEAN :
       UpdateAllocationDone(call, ok)
  \/ \E call \in BagToSet(allocationManager.calls) : \E ok \in BOOLEAN :
       DeleteAllocationDone(call, ok)
  \/ \E call \in BagToSet(allocationManager.calls) : \E ok \in BOOLEAN :
       ConfirmAllocationsDone(call, ok)
  \/ \E call \in BagToSet(allocationManager.calls) : \E ok \in BOOLEAN :
       BulkStatusUpdateDone(call, ok)

SpecAllocation == Init /\ [][NextAllocation]_vars

(***************************************************************************)
(* Properties                                                              *)
(***************************************************************************)
\* the preview of the builder tab has been generated from the form
PreviewGenerated == OnBuilder

\* the three block lists of a form are empty
NoBlocks(form) ==
  /\ form.blocks.compliance = << >>
  /\ form.blocks.features = << >>
  /\ form.blocks.governance = << >>

C7_AddingBlockKeepsFragments ==
  [][\A bt \in DOMAIN BlockInputs : \A b \in BlockInputs[bt] :
       (handleBlockToggle(bt, b) /\ ~Includes(tokenForm.blocks[bt], b))
         => /\ ~GenerateThrows(tokenForm')
            /\ tokenForm'.standard = tokenForm.standard
            /\ includedFragmentIds(generateContractPreview(tokenForm))
                 \subseteq includedFragmentIds(generateContractPreview(tokenForm'))]_vars

C7_Witness ==
  /\ PreviewGenerated
  /\ tokenForm.standard = "ERC-1400"
  /\ tokenForm.blocks.compliance = <<"KYC", "AML">>
  /\ includedFragmentIds(generateContractPreview(tokenForm)) = {"Compliance Controls"}

trancheIds(tranches) == [i \in 1..Len(tranches) |-> tranches[i].id]

\* two tranches of the list share an id
HasDuplicateIds(tranches) ==
  \E i, j \in DOMAIN tranches : i # j /\ tranches[i].id = tranches[j].id

\* the form is an ERC-3525 specification whose text has been generated
TranchePreviewGenerated ==
  /\ PreviewGenerated
  /\ tokenForm.standard = "ERC-3525"
  /\ Has(tokenForm.metadata, "tranches")

\* C3 as the specification states it: for an ERC-3525 form in which two
\* tranches share an id the generation raises an error and no tranche
\* statement is rendered
C3_DuplicateIdsRaise ==
  (TranchePreviewGenerated /\ HasDuplicateIds(tokenForm.metadata.tranches))
    => Has(GenerationOutcome(tokenForm), "error")

\* C4: whatever sequence of "Add Tranche" and delete clicks the form has seen,
\* from the empty list or from the default tranches of a template, no two
\* tranches of the list share an id
C4_TrancheIdsDistinct ==
  Has(tokenForm.metadata, "tranches")
    => ~HasDuplicateIds(tokenForm.metadata.tranches)

C4_Witness ==
  /\ OnBuilder
  /\ trancheIds(tokenForm.metadata.tranches) = <<1, 3, 4>>

\* C5: "Add Tranche" appends one tranche to the list; its id is 1 when the
\* list was empty and otherwise the greatest id of the list plus one; the
\* tranches that were in the list keep their place, id, name, value and rate
C5_AddAppendsNextId ==
  [][AddTranche =>
       LET old == tokenForm.metadata.tranches
           new == tokenForm'.metadata.tranches
       IN /\ Len(new) = Len(old) + 1
          /\ \A i \in DOMAIN old : new[i] = old[i]
          /\ IF old = << >>
             THEN new[Len(new)].id = 1
             ELSE /\ \A i \in DOMAIN old : old[i].id < new[Len(new)].id
                  /\ \E i \in DOMAIN old : old[i].id + 1 = new[Len(new)].id]_vars

C5_Witness ==
  /\ OnBuilder
  /\ trancheIds(tokenForm.metadata.tranches) = <<2, 3, 4>>
  /\ tokenForm.metadata.tranches[3].name = "Tranche 4"
  /\ tokenForm.metadata.tranches[3].value = 0

\* C6: a click on the delete button of a tranche removes that tranche and no
\* other; the tranches before it keep their place and those after it move up
\* by one, each with its id, name, value and rate
C6_DeleteKeepsSurvivors ==
  [][\A index \in 1..(MaxTranches + 1) :
       DeleteTranche(index) =>
         LET old == tokenForm.metadata.tranches
             new == tokenForm'.metadata.tranches
         IN /\ Len(new) = Len(old) - 1
            /\ \A k \in DOMAIN new :
                 new[k] = old[IF k < index THEN k ELSE k + 1]]_vars

C6_Witness ==
  /\ OnBuilder
  /\ trancheIds(tokenForm.metadata.tranches) = <<1, 3>>
  /\ tokenForm.metadata.tranches[2].name = "Junior (CCC)"

\* C9 as the specification states it: wherever the tranche summary is shown,
\* in a form that was created, filled from a template, edited or loaded from
\* a stored token, showing the comparison of the sum of the tranche values
\* with totalSupply raises no error
C9_SumFlagNeverRaises ==
  (activeTab = "builder" /\ TrancheSummaryShown(tokenForm))
    => ~TrancheSummaryThrows(tokenForm)

\* C10 as the specification states it: the tranche statements of the text are
\* in ascending order of their ids, whatever the order of the list
C10_StatementsAscending ==
  (TranchePreviewGenerated /\ ~GenerateThrows(tokenForm))
    => LET st == trancheStatements(generateContractPreview(tokenForm))
       IN \A k \in 1..(Len(st) - 1) : st[k].slotId <= st[k + 1].slotId

\* C10, amended: the text has one tranche statement per tranche, in the order
\* of the list: the k-th statement carries the id, the name, the value and
\* the rate of the k-th tranche
C10_StatementsInListOrder ==
  (TranchePreviewGenerated /\ ~GenerateThrows(tokenForm))
    => LET st == trancheStatements(generateContractPreview(tokenForm))
           tranches == tokenForm.metadata.tranches
       IN /\ Len(st) = Len(tranches)
          /\ \A k \in DOMAIN st :
               /\ st[k].slotId = tranches[k].id
               /\ st[k].name = tranches[k].name
               /\ st[k].value = tranches[k].value
               /\ st[k].interestRate = toBasisPoints(tranches[k].interestRate)

C10_Witness ==
  /\ TranchePreviewGenerated
  /\ trancheIds(tokenForm.metadata.tranches) = <<2, 1>>
  /\ LET st == trancheStatements(generateContractPreview(tokenForm))
     IN [k \in 1..Len(st) |-> st[k].slotId] = <<2, 1>>

\* C11: for an ERC-3525 form whose tranche ids are distinct the generation
\* succeeds and the text has exactly one tranche statement per tranche: the
\* slot keys of the statements, read in the order of the text, are the ids of
\* the tranches, read in the order of the list
C11_OneStatementPerTranche ==
  (TranchePreviewGenerated /\ ~HasDuplicateIds(tokenForm.metadata.tranches))
    => /\ Has(GenerationOutcome(tokenForm), "text")
       /\ LET st == trancheStatements(generateContractPreview(tokenForm))
              tranches == tokenForm.metadata.tranches
          IN /\ [k \in 1..Len(st) |-> st[k].slotId] = trancheIds(tranches)
             /\ \A i \in DOMAIN tranches :
                  Cardinality({k \in DOMAIN st : st[k].slotId = tranches[i].id}) = 1

C11_Witness ==
  /\ TranchePreviewGenerated
  /\ trancheIds(tokenForm.metadata.tranches) = <<2, 1, 3>>
  /\ Len(trancheStatements(generateContractPreview(tokenForm))) = 3

\* the contract name of a generated text: the name that follows the word
\* contract in its header
contractName(text) == text[1].contract

\* C12 as the specification states it: the contract name of the generated
\* text holds no whitespace and no other character that cannot be part of an
\* identifier, whatever name the form holds
C12_ContractNameIsIdentifier ==
  (PreviewGenerated /\ tokenForm.standard \in GeneratedStandards
     /\ ~GenerateThrows(tokenForm))
    => LET contract == contractName(generateContractPreview(tokenForm))
       IN \A i \in DOMAIN contract : contract[i] \notin Whitespace \cup {"-", "&"}

\* C13 as the specification states it: the rate written into the statement
\* of a tranche is the integer round(rate * 100), ties rounded up, whatever
\* rate the form holds for the tranche
C13_RateIsRoundedBasisPoints ==
  (TranchePreviewGenerated /\ ~GenerateThrows(tokenForm))
    => LET st == trancheStatements(generateContractPreview(tokenForm))
           tranches == tokenForm.metadata.tranches
           \* round(rate * 100), ties up, of a rate in thousandths of a percent
           rounded(interestRate) == (interestRate + 5) \div 10
       IN \A k \in DOMAIN st :
            st[k].interestRate = ToString(rounded(tranches[k].interestRate))

\* the form without the block names that BUILDING_BLOCKS does not offer
withoutUnknownBlocks(form) ==
  [form EXCEPT !.blocks =
     [bt \in DOMAIN form.blocks |->
        SelectSeq(form.blocks[bt], LAMBDA b : b \in BUILDING_BLOCKS[bt])]]

\* C14 as the specification states it: a block name that the form does not
\* offer has no effect on the generation: the outcome for the form is the
\* outcome for the same form without that name
C14_UnknownBlockIgnored ==
  (PreviewGenerated /\ tokenForm.standard \in GeneratedStandards)
    => GenerationOutcome(tokenForm) =
         GenerationOutcome(withoutUnknownBlocks(tokenForm))

\* C15 as the specification states it: for a form loaded from a stored token,
\* whatever optional metadata the token lacks, the generation of a supported
\* standard raises no error and returns a text
C15_MissingMetadataGenerates ==
  (/\ activeTab = "builder"
   /\ ~IsNull(selectedToken)
   /\ tokenForm = TokenToForm(selectedToken)
   /\ tokenForm.standard \in GeneratedStandards)
    => Has(GenerationOutcome(tokenForm), "text")

\* C16: a call of the generator, in a render of the preview or at the start
\* of saveToken, leaves the form, the token list, the selection and the
\* tables of the store as they are, and the generation from the form gives
\* after the call what it gave before it
C16_GenerationLeavesStateUnchanged ==
  [][(ContractPreviewRender \/ SaveBegin)
       => /\ UNCHANGED <<tokenForm, tokens, selectedToken, dbTokens,
                         dbVersions, dbNextId>>
          /\ GenerationOutcome(tokenForm') = GenerationOutcome(tokenForm)]_vars

C16_Witness ==
  /\ OnBuilder
  /\ ~IsNull(saveCall)
  /\ saveCall.form = tokenForm
  /\ tokenForm.standard = "ERC-3525"
  /\ saveCall.contractPreview = generateContractPreview(tokenForm)
  /\ Len(saveCall.contractPreview) > 3

\* the id of the token that the call of saveToken in flight writes
savedTokenId ==
  IF IsNull(saveCall.selectedToken) THEN saveCall.data.id
  ELSE saveCall.selectedToken.id

\* C17 as the specification states it: a save that ends with the message of
\* success has stored, in the row of the token, the text generated from the
\* form and the columns of the form, and has appended to the version history
\* exactly one entry, with the id of the token and the columns of the form,
\* above the entries that were there; a save that the validation rejects
\* writes to neither table
C17_SaveStoresTextAndOneVersion ==
  [][/\ \A ok \in BOOLEAN :
          SaveVersionWritten(ok)
            => /\ \E i \in DOMAIN dbTokens' :
                    /\ dbTokens'[i].id = savedTokenId
                    /\ dbTokens'[i].contract_preview = saveCall.contractPreview
                    /\ FormColumns(dbTokens'[i]) = FormColumns(saveCall.form)
               /\ Len(dbVersions') = Len(dbVersions) + 1
               /\ SubSeq(dbVersions', 1, Len(dbVersions)) = dbVersions
               /\ dbVersions'[Len(dbVersions')].token_id = savedTokenId
               /\ dbVersions'[Len(dbVersions')].data = FormColumns(saveCall.form)
     /\ SaveInvalid => UNCHANGED <<dbTokens, dbVersions>>]_vars

\* the number that a decimals value stands for: Number(v) of the texts typed
\* into the decimals field
decimalsNumber(v) ==
  IF v.type = "number" THEN v.n
  ELSE CASE v.s = "6" -> 6
         [] v.s = "19" -> 19

\* C18 as the specification states it: whatever the user typed, chose or
\* loaded, the decimals of the form are a whole number from 0 to 18 (a
\* number held as its text counts as the number)
C18_DecimalsInRange == decimalsNumber(tokenForm.decimals) \in 0..18

\* the body fragments of a standard in the order of their tests in
\* generateContractPreview
FragmentOrder(standard) ==
  CASE standard = "ERC-20" -> <<"KYC Implementation", "Dividend Distribution">>
    [] standard = "ERC-1400" -> <<"Compliance Controls", "Jurisdiction Restrictions">>
    [] standard = "ERC-3525" -> <<"Compliance Controls">>

\* the form with each of its block lists in the reverse order
reversedBlocks(form) ==
  [form EXCEPT !.blocks =
     [bt \in DOMAIN form.blocks |->
        [i \in 1..Len(form.blocks[bt]) |->
           form.blocks[bt][Len(form.blocks[bt]) + 1 - i]]]]

\* C19: the body fragments of the text follow the one order of their
\* standard; the text is the same when the block lists are read in another
\* order; and with one more block in a list every body fragment of the text
\* is still in the text, unchanged
C19_FragmentsInFixedOrder ==
  (PreviewGenerated /\ tokenForm.standard \in GeneratedStandards
     /\ ~GenerateThrows(tokenForm))
    => LET text == generateContractPreview(tokenForm)
           frags == bodyFragments(text)
           order == FragmentOrder(tokenForm.standard)
           position(id) == CHOOSE p \in DOMAIN order : order[p] = id
       IN /\ \A i \in DOMAIN frags : \E p \in DOMAIN order : order[p] = frags[i].id
          /\ \A i, j \in DOMAIN frags :
               i < j => position(frags[i].id) < position(frags[j].id)
          /\ generateContractPreview(reversedBlocks(tokenForm)) = text
          /\ \A bt \in DOMAIN BlockInputs : \A b \in BlockInputs[bt] :
               ~Includes(tokenForm.blocks[bt], b)
                 => LET more == bodyFragments(generateContractPreview(
                                  [tokenForm EXCEPT !.blocks[bt] = Append(@, b)]))
                    IN \A i \in DOMAIN frags : \E j \in DOMAIN more : more[j] = frags[i]

C19_Witness ==
  /\ PreviewGenerated
  /\ tokenForm.standard = "ERC-20"
  /\ tokenForm.blocks.compliance = <<"AML", "KYC">>
  /\ tokenForm.blocks.features = <<"Dividends">>
  /\ LET frags == bodyFragments(generateContractPreview(tokenForm))
     IN [i \in 1..Len(frags) |-> frags[i].id]
          = <<"KYC Implementation", "Dividend Distribution">>

\* the positions of the tranche statements and of the body fragments in a text
statementPositions(text) == {i \in DOMAIN text : text[i].id = "_createTranche"}
fragmentPositions(text) == {i \in DOMAIN text : text[i].id \in BodyFragmentIds}

C21_GeneratedWithNameAndSymbol ==
  /\ PreviewGenerated => tokenForm.name # << >> /\ tokenForm.symbol # ""
  /\ ~IsNull(saveCall) => saveCall.form.name # << >> /\ saveCall.form.symbol # ""

\* C22 as the specification states it: when a token that saveToken stored is
\* loaded into the form by a click on its card, the form holds the columns of
\* the stored row and the generation from the form gives the text that the
\* row holds as contract_preview
C22_LoadedFormRegeneratesStoredText ==
  [][\A index \in 1..MaxTokenId :
       handleSelectToken(index)
         => /\ FormColumns(tokenForm') = FormColumns(tokens[index])
            /\ GenerationOutcome(tokenForm')
                 = [text |-> tokens[index].contract_preview]]_vars

\* C23 as the specification states it: the saves of a form started by "New
\* Token" insert at most one row, and a save of that form that updates a row
\* updates the row that a save of the same form inserted
C23_OneRowPerNewToken ==
  [][/\ newTokenForm'.started => Cardinality(newTokenForm'.inserted) <= 1
     /\ (SaveBegin /\ newTokenForm.started /\ ~IsNull(selectedToken))
          => selectedToken.id \in newTokenForm.inserted]_vars

\* C24 as the specification states it: in every state of the component, also
\* while a save or a delete waits for the store, the tab shown is the
\* templates tab or the builder tab only if a token is being created or a
\* token is selected
C24_EditorTabsNeedToken ==
  (Mounted /\ activeTab \in {"templates", "builder"})
    => (isCreating \/ ~IsNull(selectedToken))

\* C25 as the specification states it: the dialog calls onDistribute only in
\* a state where both boxes are checked, an investor is selected and a token
\* type is selected; when the attempt ends, with or without an error, both
\* boxes are unchecked and isDistributing is false; and an attempt that
\* failed does not close the dialog
C25_DistributeGuardedAndClosedOnSuccess ==
  [][LET \* handleDistributeTokens ends in its catch block
         failed == \/ SubscriptionsWritten(FALSE)
                   \/ AllocationsSelected(FALSE)
                   \/ AllocationsWritten(FALSE)
         \* handleDistribute runs to its end
         ended == failed \/ \E ok \in BOOLEAN : DistributeTokensDone(ok)
     IN /\ onDistribute
             => /\ distributionDialog.walletWarning
                /\ distributionDialog.confirmationChecked
                /\ Len(distributionManager.selectedIds) > 0
                /\ distributionDialog.selectedTokenType # ""
        /\ ended
             => /\ ~distributionDialog'.walletWarning
                /\ ~distributionDialog'.confirmationChecked
                /\ ~distributionDialog'.isDistributing
        /\ failed
             => distributionManager'.isDistributeDialogOpen
                  = distributionManager.isDistributeDialogOpen]_vars

\* C26 as the specification states it: whenever the dialog calls
\* onDistribute, the selected token type is one that the tokenTypes of the
\* manager mark as minted at that moment
C26_DistributedTypeIsMinted ==
  [][onDistribute
       => distributionDialog.selectedTokenType \in OfferedTokenTypes]_vars

\* C27 as the specification states it: when no call of
\* handleDistributeTokens is under way, a subscription of the store is marked
\* distributed only if each of its token allocations is marked distributed
C27_DistributionNotHalfApplied ==
  IsNull(distributionDialog.call)
    => \A s \in Elements(capStore.subscriptions) :
         s.distributed
           => \A a \in Elements(capStore.token_allocations) :
                a.subscription_id = s.id => a.distributed

\* C28: the mint dialog calls onMintComplete, with its selection, only in a
\* state where the confirmation box is checked and a token type is selected;
\* when the call succeeds the selection is emptied, the box unchecked and the
\* dialog closed; when it fails the selection, the box and the open dialog
\* are as they were; isMinting is false after both
C28_MintGuardedAndSettled ==
  [][/\ handleMintTokens
          => /\ mintingDialog.confirmationChecked
             /\ Len(mintingDialog.selectedTokenTypes) > 0
             /\ mintingDialog'.mintCall.tokenTypes
                  = mintingDialog.selectedTokenTypes
     /\ MintComplete(TRUE)
          => /\ mintingDialog'.selectedTokenTypes = << >>
             /\ ~mintingDialog'.confirmationChecked
             /\ ~mintingDialog'.open
             /\ ~mintingDialog'.isMinting
     /\ MintComplete(FALSE)
          => /\ mintingDialog'.selectedTokenTypes
                  = mintingDialog.selectedTokenTypes
             /\ mintingDialog'.confirmationChecked
                  = mintingDialog.confirmationChecked
             /\ mintingDialog'.open = mintingDialog.open
             /\ ~mintingDialog'.isMinting]_vars

\* onMintComplete was called with two token types and has not answered yet
C28_MintCallInFlight ==
  /\ ~IsNull(mintingDialog.mintCall)
  /\ Len(mintingDialog.mintCall.tokenTypes) = 2
  /\ mintingDialog.isMinting
  /\ mintingDialog.confirmationChecked
  /\ mintingDialog.open

\* C29 as the specification states it: selectedAllocationIds of the
\* allocation manager holds no id twice and only ids of rows of allocations
C29_SelectionWithinAllocations ==
  LET selected == allocationManager.selectedAllocationIds
  IN /\ \A i, j \in DOMAIN selected : selected[i] = selected[j] => i = j
     /\ \A i \in DOMAIN selected :
          Includes(allocationIds(allocationManager.allocations), selected[i])

\* C30: the steps of handleUpdateAllocation, handleDeleteAllocation,
\* handleConfirmAllocations and of the bulk status update that send the write
\* to the store, and the steps that read its error, leave the local
\* allocations and the selection as they were: these change only in the
\* step that read the success of the write
C30_FailedWriteKeepsLocalState ==
  [][LET \* one of the four handlers sends its write
         begun == BagCardinality(allocationManager'.calls)
                    > BagCardinality(allocationManager.calls)
         \* the store answers the write of one of them with an error
         failed == \E call \in BagToSet(allocationManager.calls) :
                     \/ UpdateAllocationDone(call, FALSE)
                     \/ DeleteAllocationDone(call, FALSE)
                     \/ ConfirmAllocationsDone(call, FALSE)
                     \/ BulkStatusUpdateDone(call, FALSE)
     IN (begun \/ failed)
          => /\ allocationManager'.allocations = allocationManager.allocations
             /\ allocationManager'.selectedAllocationIds
                  = allocationManager.selectedAllocationIds]_vars

\* the delete of a selected row waits for the store: the row is still listed
\* and selected
C30_WaitingDeleteKeepsRow ==
  /\ allocationManager.calls = SetToBag({AllocationCall("delete", 1, {}, 0, "")})
  /\ Len(allocationManager.allocations) = 2
  /\ Len(capStore.token_allocations) = 2
  /\ allocationManager.selectedAllocationIds = <<1>>

====
